---------------------------- MODULE Spec2Model ----------------------------
(***************************************************************************)
(* Feedback validation, aggregation and score blending of the safety-score *)
(* backend (src/backend/api): the Feedback table, the submission handler   *)
(* feedback_view, the FeedbackValidator, the admin approve/reject actions, *)
(* the FeedbackAggregationService summary and the ScoringEngine.           *)
(*                                                                         *)
(* Conventions of the model                                                *)
(*   time         integer hours since an epoch; the calendar date of t is  *)
(*                t \div 24, timedelta(hours=1) is 1, timedelta(days=n) is *)
(*                24*n.                                                    *)
(*   coordinates  integer millidegrees (0.001 degree is 1).                *)
(*   floats       exact rationals <<n, d>> in lowest terms with d > 0;     *)
(*                binary rounding of Python floats is not modelled.        *)
(*   strings      user_id is a finite sequence of characters (code points)  *)
(*                so that slicing [:64] is SubSeq; other strings are TLA+   *)
(*                strings.                                                  *)
(*   optional     a value that may be missing/None is <<>> or <<v>>.       *)
(***************************************************************************)
EXTENDS Integers, Sequences, FiniteSets, TLC

VARIABLES
    store,          \* the Feedback table: sequence of rows, id = position
    feedback_json,  \* data/feedback.json: the "feedbacks" array
    weights,        \* scoring_engine.weights (shared, module-global instance)
    now,            \* timezone.now(), in hours
    req,            \* per client: the feedback_view request in progress
    observed,       \* what the last read-only service call returned
    env             \* the traffic script and the number of events still to come

vars == <<store, feedback_json, weights, now, req, observed, env>>

-----------------------------------------------------------------------------
(* Arithmetic helpers: exact rationals standing for Python floats.         *)

Abs(x) == IF x < 0 THEN -x ELSE x

RECURSIVE GCD(_, _)
GCD(a, b) == IF b = 0 THEN a ELSE GCD(b, a % b)

Rat(n, d) ==
    LET s == IF d < 0 THEN -1 ELSE 1
        g == GCD(Abs(n), Abs(d))
    IN  <<(s * n) \div g, (s * d) \div g>>

RInt(k) == <<k, 1>>
\* Sums over the least common denominator and products with cross-cancelled
\* factors, so that intermediate values stay as small as the result allows.
RAdd(a, b) ==
    LET g == GCD(a[2], b[2])
    IN  Rat(a[1] * (b[2] \div g) + b[1] * (a[2] \div g), (a[2] \div g) * b[2])
RSub(a, b) == RAdd(a, <<-b[1], b[2]>>)
RMul(a, b) ==
    LET g1 == GCD(Abs(a[1]), b[2])
        g2 == GCD(Abs(b[1]), a[2])
    IN  IF a[1] = 0 \/ b[1] = 0 THEN <<0, 1>>
        ELSE Rat((a[1] \div g1) * (b[1] \div g2), (a[2] \div g2) * (b[2] \div g1))
RDiv(a, b) == RMul(a, IF b[1] < 0 THEN <<-b[2], -b[1]>> ELSE <<b[2], b[1]>>)
RLt(a, b) ==
    LET g == GCD(a[2], b[2])
    IN  a[1] * (b[2] \div g) < b[1] * (a[2] \div g)
RLe(a, b) ==
    LET g == GCD(a[2], b[2])
    IN  a[1] * (b[2] \div g) <= b[1] * (a[2] \div g)
RMin(a, b) == IF RLe(a, b) THEN a ELSE b
RMax(a, b) == IF RLe(a, b) THEN b ELSE a

\* round(x, k) for x >= 0 with scale = 10^k: nearest multiple of 1/scale,
\* ties to the even multiple.
RRound(x, scale) ==
    LET num == x[1] * scale
        q == num \div x[2]
        r2 == 2 * (num % x[2])
        up == r2 > x[2] \/ (r2 = x[2] /\ q % 2 = 1)
    IN  Rat(IF up THEN q + 1 ELSE q, scale)

\* Sums of a sequence, split in halves (the result is that of the left-to-
\* right loop: the arithmetic is exact).
RECURSIVE SumRange(_, _, _)
SumRange(s, lo, hi) ==
    IF lo > hi THEN 0
    ELSE IF lo = hi THEN s[lo]
    ELSE LET mid == (lo + hi) \div 2
         IN  SumRange(s, lo, mid) + SumRange(s, mid + 1, hi)

SeqSum(s) == SumRange(s, 1, Len(s))

RECURSIVE RSumRange(_, _, _)
RSumRange(s, lo, hi) ==
    IF lo > hi THEN RInt(0)
    ELSE IF lo = hi THEN s[lo]
    ELSE LET mid == (lo + hi) \div 2
         IN  RAdd(RSumRange(s, lo, mid), RSumRange(s, mid + 1, hi))

RSeqSum(s) == RSumRange(s, 1, Len(s))

\* Python slicing s[:n]
Take(s, n) == SubSeq(s, 1, IF Len(s) < n THEN Len(s) ELSE n)

DateOf(t) == t \div 24

-----------------------------------------------------------------------------
(* FeedbackValidator.__init__ and FeedbackAggregationService.__init__      *)

max_feedback_per_user_per_day == 10
max_feedback_per_location_per_hour == 5
min_rating == 1
max_rating == 10
trusted_user_threshold == 3
user_id_max_length == 64
comment_max_length == 1000

min_feedback_threshold == 50
max_feedback_age_days == 365
location_radius_meters == 100
outlier_threshold == 2

APPROVED == {"approved", "auto_approved"}
STATUSES == {"pending", "approved", "rejected", "auto_approved"}

ERR_MISSING == "Missing required fields"
ERR_LAT == "Latitude must be between -90 and 90 degrees"
ERR_LON == "Longitude must be between -180 and 180 degrees"
ERR_RATING == "Rating must be between 1 and 10"
ERR_SUSPICIOUS == "Comment contains suspicious content"
ERR_TOO_LONG == "Comment is too long (max 1000 characters)"
ERR_DAILY == "Daily feedback limit exceeded (10)"
ERR_LOCATION == "Location feedback limit exceeded (5 per hour)"

-----------------------------------------------------------------------------
(* FeedbackValidator: the checks of validate_feedback.  Each check returns *)
(* the error it appends (<<>> when it passes).                             *)

_validate_basic_fields(data) ==
    IF data.latitude = <<>> \/ data.longitude = <<>> \/ data.rating = <<>>
    THEN <<ERR_MISSING>> ELSE <<>>

_validate_coordinates(data) ==
    LET lat == data.latitude[1]
        lon == data.longitude[1]
    IN  IF ~(-90000 <= lat /\ lat <= 90000) THEN <<ERR_LAT>>
        ELSE IF ~(-180000 <= lon /\ lon <= 180000) THEN <<ERR_LON>>
        ELSE <<>>

\* A faulty variant, for sensitivity: the lower bound is forgotten.
_validate_rating_upper_only(data) ==
    LET rating == data.rating[1]
    IN  IF ~(rating <= max_rating) THEN <<ERR_RATING>> ELSE <<>>

_validate_rating(data) ==
    LET rating == data.rating[1]
    IN  IF ~(min_rating <= rating /\ rating <= max_rating)
        THEN <<ERR_RATING>> ELSE <<>>

\* A comment is abstracted to what the checks read: whether one of the
\* suspicious_patterns matches it, and its length.
_validate_content(data) ==
    LET comment == data.comment
    IN  IF comment.len = 0 THEN <<>>
        ELSE IF comment.suspicious THEN <<ERR_SUSPICIOUS>>
        ELSE IF comment.len > comment_max_length THEN <<ERR_TOO_LONG>>
        ELSE <<>>

\* Feedback.objects.filter(user_id=user_id, created_at__date=today).count()
CountUserToday(st, user_id, t) ==
    Cardinality({i \in DOMAIN st :
        st[i].user_id = user_id /\ DateOf(st[i].created_at) = DateOf(t)})

\* Feedback.objects.filter(latitude__range=..., longitude__range=...,
\*                         created_at__gte=one_hour_ago).count()
CountLocationHour(st, lat, lon, t) ==
    Cardinality({i \in DOMAIN st :
        /\ lat - 1 <= st[i].latitude /\ st[i].latitude <= lat + 1
        /\ lon - 1 <= st[i].longitude /\ st[i].longitude <= lon + 1
        /\ st[i].created_at >= t - 1})

\* A faulty variant, for sensitivity: the location limit is compared with
\* > instead of >=.
_validate_rate_limits_one_more(st, data, t) ==
    LET user_id == data.user_id
        lat == data.latitude[1]
        lon == data.longitude[1]
    IN  IF user_id # <<>>
           /\ CountUserToday(st, user_id, t) >= max_feedback_per_user_per_day
        THEN <<ERR_DAILY>>
        ELSE IF CountLocationHour(st, lat, lon, t)
                    > max_feedback_per_location_per_hour
        THEN <<ERR_LOCATION>>
        ELSE <<>>

\* A faulty variant, for sensitivity: the daily limit also counts the
\* records without a user_id.
_validate_rate_limits_everyone(st, data, t) ==
    LET user_id == data.user_id
        lat == data.latitude[1]
        lon == data.longitude[1]
    IN  IF CountUserToday(st, user_id, t) >= max_feedback_per_user_per_day
        THEN <<ERR_DAILY>>
        ELSE IF CountLocationHour(st, lat, lon, t)
                    >= max_feedback_per_location_per_hour
        THEN <<ERR_LOCATION>>
        ELSE <<>>

_validate_rate_limits(st, data, t) ==
    LET user_id == data.user_id
        lat == data.latitude[1]
        lon == data.longitude[1]
    IN  IF user_id # <<>>
           /\ CountUserToday(st, user_id, t) >= max_feedback_per_user_per_day
        THEN <<ERR_DAILY>>
        ELSE IF CountLocationHour(st, lat, lon, t)
                    >= max_feedback_per_location_per_hour
        THEN <<ERR_LOCATION>>
        ELSE <<>>

\* A faulty variant, for sensitivity: strictly more than the threshold is required.
_is_trusted_user_strict(st, user_id) ==
    IF user_id = <<>> THEN FALSE
    ELSE Cardinality({i \in DOMAIN st :
            st[i].user_id = user_id /\ st[i].approval_status \in APPROVED})
         > trusted_user_threshold

_is_trusted_user(st, user_id) ==
    IF user_id = <<>> THEN FALSE
    ELSE Cardinality({i \in DOMAIN st :
            st[i].user_id = user_id /\ st[i].approval_status \in APPROVED})
         >= trusted_user_threshold

_is_new_user(st, user_id) ==
    IF user_id = <<>> THEN TRUE
    ELSE Cardinality({i \in DOMAIN st : st[i].user_id = user_id}) < 3

\* A faulty variant, for sensitivity: the auto-approve band is the narrower 3..8 of the new-user rule.
_determine_approval_status_narrow(st, data, errors) ==
    LET rating == data.rating[1]
        user_id == data.user_id
    IN  IF \E k \in DOMAIN errors : errors[k] = ERR_SUSPICIOUS THEN "pending"
        ELSE IF user_id # <<>> /\ _is_trusted_user(st, user_id)
        THEN "auto_approved"
        ELSE IF 3 <= rating /\ rating <= 8 THEN "auto_approved"
        ELSE IF rating \in {1, 10} THEN "pending"
        ELSE IF user_id # <<>> /\ _is_new_user(st, user_id)
        THEN "pending"
        ELSE "auto_approved"

_determine_approval_status(st, data, errors) ==
    LET rating == data.rating[1]
        user_id == data.user_id
    IN  IF \E k \in DOMAIN errors : errors[k] = ERR_SUSPICIOUS THEN "pending"
        ELSE IF user_id # <<>> /\ _is_trusted_user(st, user_id)
        THEN "auto_approved"
        ELSE IF 2 <= rating /\ rating <= 9 THEN "auto_approved"
        ELSE IF rating \in {1, 10} THEN "pending"
        ELSE IF user_id # <<>> /\ _is_new_user(st, user_id)
        THEN (IF 3 <= rating /\ rating <= 8 THEN "auto_approved" ELSE "pending")
        ELSE "auto_approved"

Verdict(ok, errors, status) ==
    [is_valid |-> ok, validation_errors |-> errors, approval_status |-> status]

\* A faulty variant, for sensitivity: the content screen runs before the
\* rating check.
validate_feedback_content_first(st, data, t) ==
    LET e1 == _validate_basic_fields(data) IN
    IF e1 # <<>> THEN Verdict(FALSE, e1, "rejected") ELSE
    LET e2 == _validate_coordinates(data) IN
    IF e2 # <<>> THEN Verdict(FALSE, e2, "rejected") ELSE
    LET e4 == _validate_content(data) IN
    IF e4 # <<>> THEN Verdict(FALSE, e4, "rejected") ELSE
    LET e3 == _validate_rating(data) IN
    IF e3 # <<>> THEN Verdict(FALSE, e3, "rejected") ELSE
    LET e5 == _validate_rate_limits(st, data, t) IN
    IF e5 # <<>> THEN Verdict(FALSE, e5, "rejected") ELSE
    LET validation_errors == <<>>
        status == _determine_approval_status(st, data, validation_errors)
    IN  Verdict(Len(validation_errors) = 0 \/ status # "rejected",
                validation_errors, status)

\* A faulty variant, for sensitivity: a suspicious comment is recorded as
\* a validation error of a submission that is held for review.
validate_feedback_lenient(st, data, t) ==
    LET e1 == _validate_basic_fields(data) IN
    IF e1 # <<>> THEN Verdict(FALSE, e1, "rejected") ELSE
    LET e2 == _validate_coordinates(data) IN
    IF e2 # <<>> THEN Verdict(FALSE, e2, "rejected") ELSE
    LET e3 == _validate_rating(data) IN
    IF e3 # <<>> THEN Verdict(FALSE, e3, "rejected") ELSE
    LET e4 == _validate_content(data) IN
    IF e4 # <<>> /\ e4 # <<ERR_SUSPICIOUS>>
    THEN Verdict(FALSE, e4, "rejected") ELSE
    LET e5 == _validate_rate_limits(st, data, t) IN
    IF e5 # <<>> THEN Verdict(FALSE, e5, "rejected") ELSE
    LET validation_errors == e4
        status == _determine_approval_status(st, data, validation_errors)
    IN  Verdict(Len(validation_errors) = 0 \/ status # "rejected",
                validation_errors, status)

validate_feedback(st, data, t) ==
    LET e1 == _validate_basic_fields(data) IN
    IF e1 # <<>> THEN Verdict(FALSE, e1, "rejected") ELSE
    LET e2 == _validate_coordinates(data) IN
    IF e2 # <<>> THEN Verdict(FALSE, e2, "rejected") ELSE
    LET e3 == _validate_rating(data) IN
    IF e3 # <<>> THEN Verdict(FALSE, e3, "rejected") ELSE
    LET e4 == _validate_content(data) IN
    IF e4 # <<>> THEN Verdict(FALSE, e4, "rejected") ELSE
    LET e5 == _validate_rate_limits(st, data, t) IN
    IF e5 # <<>> THEN Verdict(FALSE, e5, "rejected") ELSE
    LET validation_errors == <<>>
        status == _determine_approval_status(st, data, validation_errors)
    IN  Verdict(Len(validation_errors) = 0 \/ status # "rejected",
                validation_errors, status)

-----------------------------------------------------------------------------
(* models.Feedback rows and the rows feedback_view creates.                *)

\* Feedback.objects.create(..., approval_status=approval_status,
\*     validation_errors=validation_errors,
\*     is_trusted_user=feedback_validator._is_trusted_user(user_id))
NewFeedback(st, data, verdict, t) ==
    [id |-> Len(st) + 1,
     created_at |-> t,
     updated_at |-> t,
     user_id |-> Take(data.user_id, user_id_max_length),
     latitude |-> data.latitude[1],
     longitude |-> data.longitude[1],
     place_type |-> data.place_type,
     region |-> data.region,
     rating |-> data.rating[1],
     comment |-> data.comment,
     approval_status |-> verdict.approval_status,
     approved_by |-> "",
     approved_at |-> <<>>,
     rejected_by |-> "",
     rejected_at |-> <<>>,
     rejection_reason |-> "",
     validation_errors |-> verdict.validation_errors,
     is_trusted_user |-> _is_trusted_user(st, data.user_id)]

\* The fallback create passes none of the approval fields: the column
\* defaults of models.Feedback apply.
FallbackFeedback(st, data, t) ==
    [NewFeedback(st, data, Verdict(TRUE, <<>>, "pending"), t)
        EXCEPT !.is_trusted_user = FALSE]

\* The entry appended to feedback.json
FeedbackEntry(fb, data, approval_status) ==
    [id |-> fb.id,
     user_id |-> data.user_id,
     latitude |-> fb.latitude,
     longitude |-> fb.longitude,
     place_type |-> data.place_type,
     region |-> data.region,
     rating |-> fb.rating,
     created_at |-> fb.created_at,
     approval_status |-> approval_status]

-----------------------------------------------------------------------------
(* ScoringEngine                                                           *)

FACTORS ==
    {"transport", "transport_density", "lighting", "visibility",
     "natural_surveillance", "sidewalks", "businesses", "police_stations",
     "hospitals", "crime_rate", "user_feedback"}

FactorOrder ==
    <<"transport", "transport_density", "lighting", "visibility",
      "natural_surveillance", "sidewalks", "businesses", "police_stations",
      "hospitals", "crime_rate", "user_feedback">>

\* ScoringEngine.__init__: self.weights
InitialWeights ==
    [f \in FACTORS |->
        CASE f \in {"lighting", "police_stations", "crime_rate"} -> Rat(15, 100)
          [] f \in {"transport", "visibility", "natural_surveillance",
                    "hospitals"} -> Rat(10, 100)
          [] f \in {"transport_density", "sidewalks", "businesses"} -> Rat(5, 100)
          [] OTHER -> Rat(20, 100)]

WeightSum(w) == RSeqSum([k \in 1..Len(FactorOrder) |-> w[FactorOrder[k]]])

\* The rows update_weights_from_feedback averages: approved or auto-approved,
\* region__iexact="tamil nadu", place_type__icontains="tourist".
TnTourism(st) ==
    SelectSeq(st, LAMBDA f :
        /\ f.approval_status \in {"approved", "auto_approved"}
        /\ f.region \in {"Tamil Nadu", "tamil nadu"}
        /\ f.place_type \in {"tourist_place", "tourist"})

\* aggregate(avg=Avg("rating")): <<>> (None) over no rows
AvgRating(rows) ==
    IF rows = <<>> THEN <<>>
    ELSE <<Rat(SeqSum([k \in 1..Len(rows) |-> rows[k].rating]), Len(rows))>>

Bump(w, f, cap, inc) == [w EXCEPT ![f] = RMin(cap, RAdd(w[f], inc))]

\* A faulty variant, for sensitivity: the table is renormalised before the
\* increments instead of after them.
update_weights_from_feedback_early_norm(w, st) ==
    LET avg_tn == AvgRating(TnTourism(st))
        total == WeightSum(w)
        w0 == IF RLt(RInt(0), total) THEN [f \in FACTORS |-> RDiv(w[f], total)]
              ELSE w
    IN  IF avg_tn = <<>> THEN w0
        ELSE IF RLt(avg_tn[1], RInt(5))
        THEN Bump(Bump(Bump(w0, "police_stations", Rat(25, 100), Rat(3, 100)),
                       "lighting", Rat(25, 100), Rat(2, 100)),
                  "visibility", Rat(20, 100), Rat(2, 100))
        ELSE IF RLt(RInt(8), avg_tn[1])
        THEN Bump(Bump(w0, "businesses", Rat(15, 100), Rat(2, 100)),
                  "transport", Rat(20, 100), Rat(2, 100))
        ELSE w0

\* A faulty variant, for sensitivity: the increments are applied without
\* their ceilings.
update_weights_from_feedback_uncapped(w, st) ==
    LET avg_tn == AvgRating(TnTourism(st))
        Raise(t, f, inc) == [t EXCEPT ![f] = RAdd(t[f], inc)]
        w1 == IF avg_tn = <<>> THEN w
              ELSE IF RLt(avg_tn[1], RInt(5))
              THEN Raise(Raise(Raise(w, "police_stations", Rat(3, 100)),
                               "lighting", Rat(2, 100)),
                         "visibility", Rat(2, 100))
              ELSE IF RLt(RInt(8), avg_tn[1])
              THEN Raise(Raise(w, "businesses", Rat(2, 100)),
                         "transport", Rat(2, 100))
              ELSE w
        total == WeightSum(w1)
    IN  IF RLt(RInt(0), total) THEN [f \in FACTORS |-> RDiv(w1[f], total)]
        ELSE w1

update_weights_from_feedback(w, st) ==
    LET avg_tn == AvgRating(TnTourism(st))
        w1 == IF avg_tn = <<>> THEN w
              ELSE IF RLt(avg_tn[1], RInt(5))
              THEN Bump(Bump(Bump(w, "police_stations", Rat(25, 100), Rat(3, 100)),
                             "lighting", Rat(25, 100), Rat(2, 100)),
                        "visibility", Rat(20, 100), Rat(2, 100))
              ELSE IF RLt(RInt(8), avg_tn[1])
              THEN Bump(Bump(w, "businesses", Rat(15, 100), Rat(2, 100)),
                        "transport", Rat(20, 100), Rat(2, 100))
              ELSE w
        total == WeightSum(w1)
    IN  IF RLt(RInt(0), total) THEN [f \in FACTORS |-> RDiv(w1[f], total)]
        ELSE w1

Clamp(x, lo, hi) == RMax(lo, RMin(hi, x))

\* A faulty variant, for sensitivity: feature values are used as given,
\* without being brought into [0, 1].
score_raw_values(w, features, weather_mul, incident_mul) ==
    LET present == SelectSeq(FactorOrder, LAMBDA f : f \in DOMAIN features)
        final_value(f) ==
            LET v1 == IF f \in {"lighting", "visibility"}
                      THEN RMul(features[f], weather_mul) ELSE features[f]
            IN  IF f = "crime_rate" THEN RMul(v1, incident_mul) ELSE v1
        total_score ==
            RSeqSum([k \in 1..Len(present) |->
                        RMul(final_value(present[k]), w[present[k]])])
        total_weight == RSeqSum([k \in 1..Len(present) |-> w[present[k]]])
        final_score == IF RLt(RInt(0), total_weight)
                       THEN RMul(RDiv(total_score, total_weight), RInt(10))
                       ELSE RInt(5)
    IN  Clamp(final_score, RInt(1), RInt(10))

\* ScoringEngine.score: features maps some factor names (and possibly other
\* names) to numbers; returns final_score.
score(w, features, weather_mul, incident_mul) ==
    LET present == SelectSeq(FactorOrder, LAMBDA f : f \in DOMAIN features)
        final_value(f) ==
            LET value == Clamp(features[f], RInt(0), RInt(1))
                v1 == IF f \in {"lighting", "visibility"}
                      THEN RMul(value, weather_mul) ELSE value
            IN  IF f = "crime_rate" THEN RMul(v1, incident_mul) ELSE v1
        total_score ==
            RSeqSum([k \in 1..Len(present) |->
                        RMul(final_value(present[k]), w[present[k]])])
        total_weight == RSeqSum([k \in 1..Len(present) |-> w[present[k]]])
        final_score == IF RLt(RInt(0), total_weight)
                       THEN RMul(RDiv(total_score, total_weight), RInt(10))
                       ELSE RInt(5)
    IN  Clamp(final_score, RInt(1), RInt(10))


-----------------------------------------------------------------------------
(* FeedbackAggregationService                                              *)

\* lon_delta = radius / (111000.0 * abs(latitude / 90.0)) divides by zero at
\* latitude 0: the query raises ZeroDivisionError.
\* What a call reads when the database query raises (an OperationalError, a
\* lost connection): no table.
DB_ERROR == <<[error |-> "OperationalError"]>>

QueryRaises(st, latitude) == st = DB_ERROR \/ latitude = 0

\* _get_feedbacks_in_radius.  With degrees in millidegrees,
\*   lat_delta = radius/111 and lon_delta = 90000*radius/(111*|latitude|);
\* |x - c| <= delta is compared exactly, on integers.  The rows come in table
\* order (the code orders them by -created_at; nothing computed from the
\* list depends on its order).
\* A faulty variant, for sensitivity: the query without its age filter.
_get_feedbacks_in_radius_any_age(st, latitude, longitude, radius, t) ==
    SelectSeq(st, LAMBDA f :
        /\ f.approval_status \in {"approved", "auto_approved"}
        /\ 111 * Abs(f.latitude - latitude) <= radius
        /\ Abs(f.longitude - longitude)
              <= (90000 * radius) \div (111 * Abs(latitude)))

\* A faulty variant, for sensitivity: the query without its approval_status filter.
_get_feedbacks_in_radius_any_status(st, latitude, longitude, radius, t) ==
    SelectSeq(st, LAMBDA f :
        /\ 111 * Abs(f.latitude - latitude) <= radius
        /\ Abs(f.longitude - longitude)
              <= (90000 * radius) \div (111 * Abs(latitude))
        /\ f.created_at >= t - 24 * max_feedback_age_days)

_get_feedbacks_in_radius(st, latitude, longitude, radius, t) ==
    SelectSeq(st, LAMBDA f :
        /\ f.approval_status \in {"approved", "auto_approved"}
        /\ 111 * Abs(f.latitude - latitude) <= radius
        /\ Abs(f.longitude - longitude)
              <= (90000 * radius) \div (111 * Abs(latitude))
        /\ f.created_at >= t - 24 * max_feedback_age_days)

UniqueUsers(feedbacks) ==
    Cardinality({feedbacks[k].user_id : k \in DOMAIN feedbacks} \ {<<>>})

\* A faulty variant, for sensitivity: the weighted sum is divided by the
\* number of records instead of the total weight.
_calculate_location_safety_score_by_count(feedbacks, t) ==
    IF feedbacks = <<>> THEN Rat(5, 10)
    ELSE
    LET weight(f) ==
            LET days_old == (t - f.created_at) \div 24
                recency_weight == RMax(Rat(1, 10),
                                       RSub(RInt(1), Rat(days_old, 365)))
                trust_weight == IF f.is_trusted_user THEN Rat(15, 10) ELSE RInt(1)
            IN  RMul(recency_weight, trust_weight)
        weighted_sum ==
            RSeqSum([k \in 1..Len(feedbacks) |->
                        RMul(RInt(feedbacks[k].rating), weight(feedbacks[k]))])
    IN  RRound(Clamp(RDiv(RDiv(weighted_sum, RInt(Len(feedbacks))), RInt(10)),
                     RInt(0), RInt(1)), 1000)

_calculate_location_safety_score(feedbacks, t) ==
    IF feedbacks = <<>> THEN Rat(5, 10)
    ELSE
    LET weight(f) ==
            LET days_old == (t - f.created_at) \div 24
                recency_weight == RMax(Rat(1, 10),
                                       RSub(RInt(1), Rat(days_old, 365)))
                trust_weight == IF f.is_trusted_user THEN Rat(15, 10) ELSE RInt(1)
            IN  RMul(recency_weight, trust_weight)
        weighted_sum ==
            RSeqSum([k \in 1..Len(feedbacks) |->
                        RMul(RInt(feedbacks[k].rating), weight(feedbacks[k]))])
        total_weight ==
            RSeqSum([k \in 1..Len(feedbacks) |-> weight(feedbacks[k])])
    IN  IF total_weight = RInt(0) THEN Rat(5, 10)
        ELSE RRound(Clamp(RDiv(RDiv(weighted_sum, total_weight), RInt(10)),
                          RInt(0), RInt(1)), 1000)

\* ratings = [f.rating for f in feedbacks]
RatingsOf(feedbacks) == [k \in 1..Len(feedbacks) |-> feedbacks[k].rating]

\* statistics.mean
Mean(ratings) == Rat(SeqSum(ratings), Len(ratings))

\* the sum of squared deviations from the mean
SquaredDeviations(ratings) ==
    LET m == Mean(ratings)
    IN  RSeqSum([k \in 1..Len(ratings) |->
                    RMul(RSub(RInt(ratings[k]), m), RSub(RInt(ratings[k]), m))])

\* A faulty variant, for sensitivity: the deviations are compared with the
\* population standard deviation (divisor n).
_count_outliers_population(ratings) ==
    IF Len(ratings) < 3 THEN 0
    ELSE
    LET mean_rating == Mean(ratings)
        variance == RDiv(SquaredDeviations(ratings), RInt(Len(ratings)))
        bound2 == RMul(RInt(outlier_threshold * outlier_threshold), variance)
    IN  Cardinality({k \in 1..Len(ratings) :
            RLt(bound2, RMul(RSub(RInt(ratings[k]), mean_rating),
                             RSub(RInt(ratings[k]), mean_rating)))})

\* _count_outliers.  statistics.stdev is the sample standard deviation
\* (divisor n - 1); abs(rating - mean) > threshold * std_dev is decided on
\* the squares, which are exact.
_count_outliers(ratings) ==
    IF Len(ratings) < 3 THEN 0
    ELSE
    LET mean_rating == Mean(ratings)
        variance == RDiv(SquaredDeviations(ratings), RInt(Len(ratings) - 1))
        bound2 == RMul(RInt(outlier_threshold * outlier_threshold), variance)
    IN  Cardinality({k \in 1..Len(ratings) :
            RLt(bound2, RMul(RSub(RInt(ratings[k]), mean_rating),
                             RSub(RInt(ratings[k]), mean_rating)))})

_empty_feedback_summary ==
    [feedback_count |-> 0,
     unique_users |-> 0,
     meets_threshold |-> FALSE,
     average_rating |-> RInt(0),
     outlier_count |-> 0,
     safety_score |-> Rat(5, 10),
     feedbacks |-> <<>>]

\* get_location_feedback_summary; "feedbacks" keeps the rows the summary was
\* computed from.
\* A faulty variant, for sensitivity: a failed query is reported as a
\* location with sufficient feedback.
get_location_feedback_summary_flagged(st, latitude, longitude, radius, t) ==
    IF QueryRaises(st, latitude)
    THEN [_empty_feedback_summary EXCEPT !.meets_threshold = TRUE]
    ELSE
    LET feedbacks == _get_feedbacks_in_radius(st, latitude, longitude, radius, t)
    IN  IF feedbacks = <<>> THEN _empty_feedback_summary
        ELSE
        [feedback_count |-> Len(feedbacks),
         unique_users |-> UniqueUsers(feedbacks),
         meets_threshold |-> Len(feedbacks) >= min_feedback_threshold,
         average_rating |-> RRound(AvgRating(feedbacks)[1], 100),
         outlier_count |-> _count_outliers(RatingsOf(feedbacks)),
         safety_score |-> _calculate_location_safety_score(feedbacks, t),
         feedbacks |-> feedbacks]

get_location_feedback_summary(st, latitude, longitude, radius, t) ==
    IF QueryRaises(st, latitude) THEN _empty_feedback_summary
    ELSE
    LET feedbacks == _get_feedbacks_in_radius(st, latitude, longitude, radius, t)
    IN  IF feedbacks = <<>> THEN _empty_feedback_summary
        ELSE
        [feedback_count |-> Len(feedbacks),
         unique_users |-> UniqueUsers(feedbacks),
         meets_threshold |-> Len(feedbacks) >= min_feedback_threshold,
         average_rating |-> RRound(AvgRating(feedbacks)[1], 100),
         outlier_count |-> _count_outliers(RatingsOf(feedbacks)),
         safety_score |-> _calculate_location_safety_score(feedbacks, t),
         feedbacks |-> feedbacks]

\* A faulty variant, for sensitivity: an even 0.5/0.5 blend.
score_with_location_feedback_even(w, st, features, latitude, longitude, t) ==
    LET feedback_summary ==
            get_location_feedback_summary(st, latitude, longitude,
                                          location_radius_meters, t)
        base_score == score(w, features, RInt(1), RInt(1))
        blended == feedback_summary.meets_threshold
        final_score ==
            IF blended
            THEN RAdd(RMul(base_score, Rat(5, 10)),
                      RMul(RMul(feedback_summary.safety_score, RInt(10)),
                           Rat(5, 10)))
            ELSE base_score
    IN  [final_score |-> Clamp(final_score, RInt(1), RInt(10)),
         base_score |-> base_score,
         has_sufficient_feedback |-> feedback_summary.meets_threshold,
         feedback_count |-> feedback_summary.feedback_count,
         unique_users |-> feedback_summary.unique_users,
         safety_score_from_feedback |-> feedback_summary.safety_score,
         scoring_method |-> IF blended THEN "blended_ai_user_feedback"
                            ELSE "ai_only_insufficient_feedback",
         ai_score_weight |-> IF blended THEN Rat(5, 10) ELSE RInt(1),
         user_feedback_weight |-> IF blended THEN Rat(5, 10) ELSE RInt(0)]

\* ScoringEngine.score_with_location_feedback
score_with_location_feedback(w, st, features, latitude, longitude, t) ==
    LET feedback_summary ==
            get_location_feedback_summary(st, latitude, longitude,
                                          location_radius_meters, t)
        base_score == score(w, features, RInt(1), RInt(1))
        blended == feedback_summary.meets_threshold
        final_score ==
            IF blended
            THEN RAdd(RMul(base_score, Rat(6, 10)),
                      RMul(RMul(feedback_summary.safety_score, RInt(10)),
                           Rat(4, 10)))
            ELSE base_score
    IN  [final_score |-> Clamp(final_score, RInt(1), RInt(10)),
         base_score |-> base_score,
         has_sufficient_feedback |-> feedback_summary.meets_threshold,
         feedback_count |-> feedback_summary.feedback_count,
         unique_users |-> feedback_summary.unique_users,
         safety_score_from_feedback |-> feedback_summary.safety_score,
         scoring_method |-> IF blended THEN "blended_ai_user_feedback"
                            ELSE "ai_only_insufficient_feedback",
         ai_score_weight |-> IF blended THEN Rat(6, 10) ELSE RInt(1),
         user_feedback_weight |-> IF blended THEN Rat(4, 10) ELSE RInt(0)]

-----------------------------------------------------------------------------
(* feedback_view, step by step.  A client's request goes through            *)
(*   Submit (validate_feedback) -> Create -> JsonRead -> JsonWrite ->      *)
(*   RefreshWeights                                                        *)
(* and each step is one access to the shared table, file or weight table.  *)

Quiet == \A p \in DOMAIN req : req[p].pc = "idle"

NoRequest ==
    [pc |-> "idle", data |-> <<>>, is_valid |-> FALSE, validation_errors |-> <<>>,
     approval_status |-> "", fb |-> <<>>, feedback_data |-> <<>>, resp |-> <<>>,
     \* history: what validate_feedback returned as approval status, and
     \* whether the "except Exception as db_error" branch was entered
     decided |-> "", db_error |-> FALSE,
     \* the local "total" of update_weights_from_feedback
     total |-> <<>>]

Response(http, status, errors) ==
    <<[http |-> http, approval_status |-> status, errors |-> errors]>>

\* request.data arrives; validate_feedback runs; an invalid submission is
\* answered 400 "validation_failed".
Submit(p, data) ==
    /\ req[p].pc = "idle"
    /\ env.events > 0
    /\ LET v == validate_feedback(store, data, now)
       IN  req' = [req EXCEPT ![p] =
                [NoRequest EXCEPT
                    !.pc = IF v.is_valid THEN "create" ELSE "idle",
                    !.data = <<data>>,
                    !.is_valid = v.is_valid,
                    !.validation_errors = v.validation_errors,
                    !.approval_status = v.approval_status,
                    !.decided = v.approval_status,
                    !.resp = IF v.is_valid THEN <<>>
                             ELSE Response(400, v.approval_status,
                                           v.validation_errors)]]
    /\ env' = [env EXCEPT !.events = @ - 1]
    /\ UNCHANGED <<store, feedback_json, weights, now, observed>>

\* Feedback.objects.create succeeds.
CreateOk(p) ==
    /\ req[p].pc = "create"
    /\ LET r == req[p]
           fb == NewFeedback(store, r.data[1],
                             Verdict(r.is_valid, r.validation_errors,
                                     r.approval_status), now)
       IN  /\ store' = Append(store, fb)
           /\ req' = [req EXCEPT ![p].pc = "json_read", ![p].fb = <<fb>>]
    /\ UNCHANGED <<feedback_json, weights, now, observed, env>>

\* The first create raises; the fallback create (without the approval
\* fields) succeeds and the handler overrides its approval_status.
CreateFallback(p) ==
    /\ req[p].pc = "create"
    /\ env.events > 0
    /\ LET fb == FallbackFeedback(store, req[p].data[1], now)
       IN  /\ store' = Append(store, fb)
           /\ req' = [req EXCEPT ![p].pc = "json_read", ![p].fb = <<fb>>,
                                 ![p].approval_status = "auto_approved",
                                 ![p].db_error = TRUE]
    /\ env' = [env EXCEPT !.events = @ - 1]
    /\ UNCHANGED <<feedback_json, weights, now, observed>>

\* Both creates raise: an IntegrityError is answered 400 "invalid_input",
\* any other database error leaves the view as a 500.
CreateFails(p, http) ==
    /\ req[p].pc = "create"
    /\ env.events > 0
    /\ req' = [req EXCEPT ![p].pc = "idle",
                          ![p].resp = Response(http, "", <<>>),
                          ![p].db_error = TRUE]
    /\ env' = [env EXCEPT !.events = @ - 1]
    /\ UNCHANGED <<store, feedback_json, weights, now, observed>>

\* feedback_store["read"](); a submission that is not approved writes
\* nothing more and is answered 201.
JsonRead(p) ==
    /\ req[p].pc = "json_read"
    /\ req' = [req EXCEPT ![p] =
            IF req[p].approval_status \in APPROVED
            THEN [req[p] EXCEPT !.pc = "json_write",
                                !.feedback_data = feedback_json]
            ELSE [req[p] EXCEPT !.pc = "idle",
                                !.resp = Response(201, req[p].approval_status,
                                                  <<>>)]]
    /\ UNCHANGED <<store, feedback_json, weights, now, observed, env>>

\* feedback_data["feedbacks"].append(feedback_entry); feedback_store["write"]
JsonWrite(p) ==
    /\ req[p].pc = "json_write"
    /\ LET r == req[p]
       IN  feedback_json' =
               Append(r.feedback_data,
                      FeedbackEntry(r.fb[1], r.data[1], r.approval_status))
    /\ req' = [req EXCEPT ![p].pc = "weights", ![p].feedback_data = <<>>]
    /\ UNCHANGED <<store, weights, now, observed, env>>

\* scoring_engine.update_weights_from_feedback(fb.latitude, fb.longitude),
\* then the 201 response.
RefreshWeights(p) ==
    /\ req[p].pc = "weights"
    /\ weights' = update_weights_from_feedback(weights, store)
    /\ observed' = [kind |-> "weights", args |-> <<>>,
                    feedbacks |-> TnTourism(store), result |-> <<>>]
    /\ req' = [req EXCEPT ![p].pc = "idle",
                          ![p].resp = Response(201, req[p].approval_status, <<>>)]
    /\ UNCHANGED <<store, feedback_json, now, env>>

\* update_weights_from_feedback up to "total = sum(self.weights.values())":
\* the increments applied to the shared table
adapted_weights(w, st) ==
    LET avg_tn == AvgRating(TnTourism(st))
    IN  IF avg_tn = <<>> THEN w
        ELSE IF RLt(avg_tn[1], RInt(5))
        THEN Bump(Bump(Bump(w, "police_stations", Rat(25, 100), Rat(3, 100)),
                       "lighting", Rat(25, 100), Rat(2, 100)),
                  "visibility", Rat(20, 100), Rat(2, 100))
        ELSE IF RLt(RInt(8), avg_tn[1])
        THEN Bump(Bump(w, "businesses", Rat(15, 100), Rat(2, 100)),
                  "transport", Rat(20, 100), Rat(2, 100))
        ELSE w

\* The weight refresh of feedback_view as two accesses to the shared table,
\* for requests served by concurrent threads: first the regional mean is
\* read, the increments are written and the total is computed ...
WeightsAdapt(p) ==
    /\ req[p].pc = "weights"
    /\ weights' = adapted_weights(weights, store)
    /\ req' = [req EXCEPT ![p].pc = "normalise",
                          ![p].total = <<WeightSum(weights')>>]
    /\ UNCHANGED <<store, feedback_json, now, observed, env>>

\* ... then every weight is divided by that total, and the 201 response
\* is given.
WeightsNormalise(p) ==
    /\ req[p].pc = "normalise"
    /\ LET total == req[p].total[1]
       IN  weights' = IF RLt(RInt(0), total)
                      THEN [f \in FACTORS |-> RDiv(weights[f], total)]
                      ELSE weights
    /\ observed' = [kind |-> "weights", args |-> <<>>,
                    feedbacks |-> TnTourism(store), result |-> <<>>]
    /\ req' = [req EXCEPT ![p].pc = "idle", ![p].total = <<>>,
                          ![p].resp = Response(201, req[p].approval_status, <<>>)]
    /\ UNCHANGED <<store, feedback_json, now, env>>

-----------------------------------------------------------------------------
(* Admin transitions (approve_feedback_view / reject_feedback_view)        *)

\* A faulty variant, for sensitivity: approval refreshes the trust flag of
\* the record from the table.
approve_feedback_retrust(st, feedback_id, admin_user, t) ==
    IF feedback_id \notin DOMAIN st THEN st
    ELSE [st EXCEPT ![feedback_id].approval_status = "approved",
                    ![feedback_id].approved_by = admin_user,
                    ![feedback_id].approved_at = <<t>>,
                    ![feedback_id].updated_at = t,
                    ![feedback_id].is_trusted_user =
                        _is_trusted_user(
                            [st EXCEPT ![feedback_id].approval_status = "approved"],
                            st[feedback_id].user_id)]

approve_feedback(st, feedback_id, admin_user, t) ==
    IF feedback_id \notin DOMAIN st THEN st
    ELSE [st EXCEPT ![feedback_id].approval_status = "approved",
                    ![feedback_id].approved_by = admin_user,
                    ![feedback_id].approved_at = <<t>>,
                    ![feedback_id].updated_at = t]

reject_feedback(st, feedback_id, admin_user, reason, t) ==
    IF feedback_id \notin DOMAIN st THEN st
    ELSE [st EXCEPT ![feedback_id].approval_status = "rejected",
                    ![feedback_id].rejected_by = admin_user,
                    ![feedback_id].rejected_at = <<t>>,
                    ![feedback_id].rejection_reason = reason,
                    ![feedback_id].updated_at = t]

Approve(feedback_id, admin_user) ==
    /\ env.events > 0
    /\ store' = approve_feedback(store, feedback_id, admin_user, now)
    /\ env' = [env EXCEPT !.events = @ - 1]
    /\ UNCHANGED <<feedback_json, weights, now, req, observed>>

Reject(feedback_id, admin_user, reason) ==
    /\ env.events > 0
    /\ store' = reject_feedback(store, feedback_id, admin_user, reason, now)
    /\ env' = [env EXCEPT !.events = @ - 1]
    /\ UNCHANGED <<feedback_json, weights, now, req, observed>>

-----------------------------------------------------------------------------
(* Read-only service calls and the clock                                   *)

Summary(latitude, longitude, radius) ==
    /\ LET s == get_location_feedback_summary(store, latitude, longitude,
                                              radius, now)
       IN  observed' = [kind |-> "summary",
                        args |-> <<latitude, longitude, radius>>,
                        feedbacks |-> s.feedbacks,
                        result |-> <<[s EXCEPT !.feedbacks = <<>>]>>]
    /\ UNCHANGED <<store, feedback_json, weights, now, req, env>>

\* read_fails: the Aggregator's query raises during this call
ScoreWithFeedback(features, latitude, longitude, read_fails) ==
    /\ observed' = [kind |-> "score",
                    args |-> <<features, latitude, longitude, read_fails>>,
                    feedbacks |-> <<>>,
                    result |-> <<score_with_location_feedback(
                                    weights,
                                    IF read_fails THEN DB_ERROR ELSE store,
                                    features, latitude, longitude, now)>>]
    /\ UNCHANGED <<store, feedback_json, weights, now, req, env>>

\* haversine_m(lat, lon, fb_lat, fb_lon) <= radius, with coordinates in
\* millidegrees and the radius in metres.  The great-circle distance is
\* computed on the local tangent plane: 111 m per millidegree of latitude,
\* a millidegree of longitude shortened by cos(latitude) (Bhaskara's
\* rational cosine on whole degrees, in thousandths).  Separations above 100
\* millidegrees (11 km) exceed every radius _parse_params accepts.
within_radius(lat, lon, fb_lat, fb_lon, radius) ==
    LET y == 90 - (Abs(lat) \div 1000)
        cos_phi == (4000 * y * (180 - y)) \div (40500 - y * (180 - y))
        d_phi == Abs(fb_lat - lat)
        d_lambda == Abs(fb_lon - lon)
        d_east == IF d_lambda > 1000 THEN d_lambda
                  ELSE (d_lambda * cos_phi) \div 1000
    IN  /\ d_phi <= 100
        /\ d_east <= 100
        /\ 111 * 111 * (d_phi * d_phi + d_east * d_east) <= radius * radius

\* combined_data_view.analyze_user_feedback: the JSON mirror's entries
\* within the radius
analyze_user_feedback(fj, lat, lon, radius) ==
    LET nearby_feedbacks ==
            SelectSeq(fj, LAMBDA fb :
                within_radius(lat, lon, fb.latitude, fb.longitude, radius))
        ratings == [k \in 1..Len(nearby_feedbacks) |->
                        nearby_feedbacks[k].rating]
        average_rating == IF nearby_feedbacks # <<>>
                          THEN Rat(SeqSum(ratings), Len(ratings))
                          ELSE RInt(0)
        feedback_score == IF nearby_feedbacks # <<>>
                          THEN RMin(RDiv(average_rating, RInt(10)), RInt(1))
                          ELSE Rat(1, 2)
    IN  [average_rating |-> RRound(average_rating, 10),
         total_feedbacks |-> Len(nearby_feedbacks),
         feedback_score |-> RRound(feedback_score, 100),
         nearby |-> nearby_feedbacks]

\* combined_data_view: the features handed to the scoring engine; surroundings
\* holds the values derived from the map, crime and transport data
combined_features(surroundings, user_feedback_data) ==
    [f \in {"police_stations", "hospitals", "lighting", "visibility",
            "sidewalks", "businesses", "transport", "transport_density",
            "openness", "security_features", "crime_rate",
            "natural_surveillance", "user_feedback"} |->
        IF f \in {"businesses", "natural_surveillance"} THEN Rat(1, 2)
        ELSE IF f = "user_feedback" THEN user_feedback_data.feedback_score
        ELSE IF f = "transport_density" THEN surroundings["transport"]
        ELSE surroundings[f]]

\* combined_data_view, from the parsed parameters to overall_safety_score
combined_data_view(w, fj, surroundings, lat, lon, radius) ==
    LET user_feedback_data == analyze_user_feedback(fj, lat, lon, radius)
        features == combined_features(surroundings, user_feedback_data)
        ai_safety_score == score(w, features, RInt(1), RInt(1))
        user_feedback_count == user_feedback_data.total_feedbacks
        user_feedback_avg == user_feedback_data.average_rating
        final == IF user_feedback_count > 0
                 THEN RDiv(RAdd(ai_safety_score, user_feedback_avg), RInt(2))
                 ELSE ai_safety_score
    IN  [ai_safety_score |-> ai_safety_score,
         features |-> features,
         user_feedback_count |-> user_feedback_count,
         user_feedback_avg |-> user_feedback_avg,
         score |-> final,
         overall_safety_score |-> RRound(final, 10)]

\* GET combined data: the weight table is adapted first, then the score is
\* computed with the adapted weights.
CombinedData(surroundings, lat, lon, radius) ==
    /\ env.events > 0
    /\ weights' = update_weights_from_feedback(weights, store)
    /\ observed' = [kind |-> "combined",
                    args |-> <<surroundings, lat, lon, radius>>,
                    feedbacks |-> TnTourism(store),
                    result |-> <<combined_data_view(weights', feedback_json,
                                     surroundings, lat, lon, radius)>>]
    /\ env' = [env EXCEPT !.events = @ - 1]
    /\ UNCHANGED <<store, feedback_json, now, req>>

\* simple_data_view and the other direct callers: ScoringEngine.score applied
\* to the current weight table
Score(features, weather_mul, incident_mul) ==
    /\ observed' = [kind |-> "scored",
                    args |-> <<features, weather_mul, incident_mul>>,
                    feedbacks |-> <<>>,
                    result |-> <<score(weights, features, weather_mul,
                                       incident_mul)>>]
    /\ UNCHANGED <<store, feedback_json, weights, now, req, env>>

Tick(d) ==
    /\ env.events > 0
    /\ now' = now + d
    /\ env' = [env EXCEPT !.events = @ - 1]
    /\ UNCHANGED <<store, feedback_json, weights, req, observed>>

-----------------------------------------------------------------------------
(* Inputs                                                                  *)

ANON == <<>>
UserId(k) == <<117, k>>
\* a user_id one character longer than the column
LONG_ID == [j \in 1..(user_id_max_length + 1) |-> 120]

NoComment == [len |-> 0, suspicious |-> FALSE]
PlainComment == [len |-> 12, suspicious |-> FALSE]
SpamComment == [len |-> 12, suspicious |-> TRUE]
LongComment == [len |-> comment_max_length + 1, suspicious |-> FALSE]

General == <<"general", "Unknown">>
Tourist == <<"tourist_place", "Tamil Nadu">>

\* Chennai (test_feedback_system.py), a point 0.002 degrees east of it
\* (outside the rate-limit box, inside the 100 m summary box), a point
\* 0.01 degrees north (outside both), and out-of-range coordinates.
P1 == <<13050, 80282>>
P1East == <<13050, 80284>>
P2 == <<13060, 80282>>
Equator == <<0, 80282>>
BadLat == <<90001, 80282>>
BadLon == <<13050, 180001>>
BadBoth == <<90001, 180001>>

Payload(user_id, place, rating, comment, tag) ==
    [user_id |-> user_id,
     latitude |-> <<place[1]>>, longitude |-> <<place[2]>>,
     rating |-> <<rating>>, comment |-> comment,
     place_type |-> tag[1], region |-> tag[2]]

MissingRating(data) == [data EXCEPT !.rating = <<>>]

AllFeatures(v) == [f \in FACTORS \ {"user_feedback"} |-> v]

\* what combined_data_view derives from the map, crime and transport data
Surroundings(v) ==
    [f \in {"police_stations", "hospitals", "lighting", "visibility",
            "sidewalks", "transport", "openness", "security_features",
            "crime_rate"} |-> v]

\* radius_m when the query string has none
DefaultRadius == 800

-----------------------------------------------------------------------------
(* Scripted traffic.  A behaviour starts from the freshly constructed      *)
(* system and first runs a script: n submissions (users taken in turn,     *)
(* five submissions every `gap` hours, all at P1 with the same rating),    *)
(* each handled by feedback_view alone, from request to response, without  *)
(* database errors.  When the script is over the clients, the admin, the   *)
(* clock and database errors are free, env.events events in all.           *)

System(st, fj, w) == [store |-> st, feedback_json |-> fj, weights |-> w]

\* feedback_view from request to response, run alone
HandleAlone(sys, data, t) ==
    LET v == validate_feedback(sys.store, data, t)
    IN  IF ~v.is_valid THEN sys
        ELSE
        LET fb == NewFeedback(sys.store, data, v, t)
            st == Append(sys.store, fb)
        IN  IF v.approval_status \in APPROVED
            THEN System(st,
                        Append(sys.feedback_json,
                               FeedbackEntry(fb, data, v.approval_status)),
                        update_weights_from_feedback(sys.weights, st))
            ELSE System(st, sys.feedback_json, sys.weights)

Script(n, users, gap, rating) ==
    [n |-> n, users |-> users, gap |-> gap, rating |-> rating]

ScriptTime(script, i) == script.gap * ((i - 1) \div 5)

ScriptData(script, i) ==
    Payload(script.users[((i - 1) % Len(script.users)) + 1], P1,
            script.rating, NoComment, General)

Warm == env.done = env.script.n

Scripted ==
    /\ env.done < env.script.n
    /\ LET i == env.done + 1
           t == ScriptTime(env.script, i)
           sys == HandleAlone(System(store, feedback_json, weights),
                              ScriptData(env.script, i), t)
       IN  /\ store' = sys.store
           /\ feedback_json' = sys.feedback_json
           /\ weights' = sys.weights
           /\ now' = t
    /\ env' = [env EXCEPT !.done = @ + 1]
    /\ UNCHANGED <<req, observed>>

\* The state after construction: an empty table and file, the weights of
\* ScoringEngine.__init__, no request in progress.
InitFrom(scripts, clients, events) ==
    /\ store = <<>>
    /\ feedback_json = <<>>
    /\ weights = InitialWeights
    /\ now = 0
    /\ req = [p \in clients |-> NoRequest]
    /\ observed = [kind |-> "none", args |-> <<>>, feedbacks |-> <<>>,
                   result |-> <<>>]
    /\ \E script \in scripts :
          env = [script |-> script, done |-> 0, events |-> events]

-----------------------------------------------------------------------------
(* SpecSeq: submissions handled one at a time (one client; admin calls and *)
(* clock ticks fall between requests).                                     *)

MaxEventsSeq == 2

ScriptsSeq ==
    {Script(0, <<ANON>>, 2, 5),
     Script(3, <<UserId(1)>>, 2, 5),
     Script(9, <<UserId(1)>>, 2, 5),
     Script(9, <<LONG_ID>>, 2, 5),
     Script(3, <<UserId(1)>>, 2, 1)}

PayloadsSeq ==
    {Payload(u, P1, r, NoComment, General) :
        u \in {ANON, UserId(1), LONG_ID}, r \in {1, 2, 9, 10}}
    \cup {Payload(UserId(1), P1, r, NoComment, General) : r \in {0, 11}}
    \cup {Payload(u, P1East, 5, NoComment, General) :
            u \in {UserId(1), LONG_ID}}
    \cup {Payload(UserId(1), pl, 5, NoComment, General) :
            pl \in {BadLat, BadLon}}
    \cup {Payload(UserId(1), P1, 5, c, Tourist) :
            c \in {PlainComment, SpamComment, LongComment}}
    \cup {MissingRating(Payload(UserId(1), P1, 5, NoComment, General))}
    \* submissions that fail several checks at once
    \cup {MissingRating(Payload(UserId(1), BadLat, 5, SpamComment, General)),
          Payload(UserId(1), BadLat, 11, SpamComment, General),
          Payload(UserId(1), BadBoth, 5, NoComment, General),
          Payload(UserId(1), P1, 11, SpamComment, General)}

Between == Warm /\ Quiet

InitSeq == InitFrom(ScriptsSeq, {1}, MaxEventsSeq)

NextSeq ==
    \/ Scripted
    \/ Warm /\ \E data \in PayloadsSeq : Submit(1, data)
    \/ CreateOk(1)
    \/ CreateFallback(1)
    \/ \E http \in {400, 500} : CreateFails(1, http)
    \/ JsonRead(1)
    \/ JsonWrite(1)
    \/ RefreshWeights(1)
    \/ Between /\ \E id \in {1, Len(store)} : Approve(id, "admin")
    \/ Between /\ \E id \in {1, Len(store)} : Reject(id, "admin", "spam")
    \/ Between /\ \E d \in {1, 24} : Tick(d)

SpecSeq == InitSeq /\ [][NextSeq]_vars

-----------------------------------------------------------------------------
(* Claims checked under SpecSeq                                            *)

\* Stated from the claims' side, independently of the validator's helpers.
RowsOf(user_id) == {i \in DOMAIN store : store[i].user_id = user_id}
ApprovedRowsOf(user_id) ==
    {i \in RowsOf(user_id) :
        store[i].approval_status \in {"approved", "auto_approved"}}
SameDayRowsOf(user_id, day) ==
    {i \in RowsOf(user_id) : store[i].created_at \div 24 = day}

\* A request that validate_feedback has just accepted (the table is as the
\* validator read it: in SpecSeq nothing runs between the two steps).
JustValidated(p) == req[p].pc = "create"
Submitted(p) == req[p].data[1]

\* C1: the store never holds more than 10 same-day records for one
\* non-empty user_id after submissions processed one at a time (the 11th
\* submission of a day is rejected).
C1_DailyLimitSequential ==
    \A i \in DOMAIN store :
        store[i].user_id # <<>> =>
            Cardinality(SameDayRowsOf(store[i].user_id,
                                      store[i].created_at \div 24)) <= 10

\* C3: a submission that passes every check and whose submitter is not
\* trusted (anonymous, or fewer than 3 approved/auto_approved records) is
\* auto_approved for ratings 2..9 and pending for ratings 1 and 10, whether
\* or not the submitter is new.
C3_UntrustedBand ==
    \A p \in DOMAIN req :
        (/\ JustValidated(p)
         /\ \/ Submitted(p).user_id = <<>>
            \/ Cardinality(ApprovedRowsOf(Submitted(p).user_id)) < 3)
        => LET rating == Submitted(p).rating[1]
           IN  /\ rating \in 2..9 => req[p].approval_status = "auto_approved"
               /\ rating \in {1, 10} => req[p].approval_status = "pending"

\* C3 witness: a non-new, non-trusted user (3 records, none approved)
\* submits an extreme rating and it is held pending.
C3_Witness ==
    \E p \in DOMAIN req :
        /\ JustValidated(p)
        /\ Submitted(p).user_id # <<>>
        /\ Cardinality(RowsOf(Submitted(p).user_id)) >= 3
        /\ Cardinality(ApprovedRowsOf(Submitted(p).user_id)) < 3
        /\ Submitted(p).rating[1] = 10
        /\ req[p].approval_status = "pending"

C5_RatingBounds ==
    /\ \A i \in DOMAIN store : store[i].rating \in 1..10
    /\ \A p \in DOMAIN req :
        (/\ req[p].data # <<>>
         /\ Submitted(p).rating # <<>>
         /\ Submitted(p).rating[1] \notin 1..10)
        => /\ req[p].pc = "idle"
           /\ ~req[p].is_valid
           /\ req[p].fb = <<>>
           /\ req[p].resp # <<>>
           /\ req[p].resp[1].approval_status = "rejected"
           /\ req[p].resp[1].http = 400

\* C5 witness: rating 11 was submitted and rejected with the rating error.
C5_Witness ==
    \E p \in DOMAIN req :
        /\ req[p].data # <<>>
        /\ Submitted(p).rating = <<11>>
        /\ req[p].resp # <<>>
        /\ req[p].resp[1].errors = <<ERR_RATING>>

-----------------------------------------------------------------------------
(* SpecAdmin: one client, two admins, the clock, and the read-only         *)
(* services, on a table holding auto-approved and pending records.         *)

MaxEventsAdmin == 3

ScriptsAdmin ==
    {Script(0, <<ANON>>, 2, 5),
     Script(2, <<UserId(1)>>, 2, 5),
     Script(2, <<UserId(1)>>, 2, 10)}

PayloadsAdmin ==
    {Payload(UserId(2), P1, 1, NoComment, Tourist),
     Payload(UserId(2), P1, 4, NoComment, Tourist),
     Payload(UserId(2), Equator, 4, NoComment, General)}

Admins == {"admin", "moderator"}

\* more than max_feedback_age_days, in hours
LongAfter == 24 * (max_feedback_age_days + 1)

PlacesAdmin == {P1, P2, Equator}

InitAdmin == InitFrom(ScriptsAdmin, {1}, MaxEventsAdmin)

NextAdmin ==
    \/ Scripted
    \/ Warm /\ \E data \in PayloadsAdmin : Submit(1, data)
    \/ CreateOk(1)
    \/ JsonRead(1)
    \/ JsonWrite(1)
    \/ RefreshWeights(1)
    \/ Between /\ \E id \in 1..(Len(store) + 1), a \in Admins : Approve(id, a)
    \/ Between /\ \E id \in 1..(Len(store) + 1) : Reject(id, "admin", "spam")
    \/ Between /\ \E d \in {1, LongAfter} : Tick(d)
    \/ Between /\ \E place \in PlacesAdmin :
                      Summary(place[1], place[2], location_radius_meters)

SpecAdmin == InitAdmin /\ [][NextAdmin]_vars

\* C6: approve and reject change a record only when it is pending; the only
\* status transitions after creation are pending->approved and
\* pending->rejected.
C6_OnlyPendingChanges ==
    [][\A i \in DOMAIN store :
          store[i].approval_status # "pending" => store'[i] = store[i]]_vars

\* C7: a second approve of an approved record leaves approved_at and
\* approved_by as the first call set them.
C7_ApproveTwiceUnchanged ==
    [][\A i \in DOMAIN store :
          (store[i].approval_status = "approved"
              /\ store'[i].approval_status = "approved")
          => /\ store'[i].approved_at = store[i].approved_at
             /\ store'[i].approved_by = store[i].approved_by]_vars

\* C8: every record the location summary counts and every record the weight
\* adaptation averages is approved or auto_approved when it is read (a
\* pending record is never counted, a rejected one no longer is); the rows
\* read are the table's rows, unchanged.
C8_OnlyApprovedVisible ==
    /\ [](\A k \in DOMAIN observed.feedbacks :
            observed.feedbacks[k].approval_status
                \in {"approved", "auto_approved"})
    /\ [][observed' # observed =>
            \A k \in DOMAIN observed'.feedbacks :
                LET f == observed'.feedbacks[k]
                IN  /\ f = store'[f.id]
                    /\ store'[f.id].approval_status
                          \in {"approved", "auto_approved"}]_vars

\* C8 witness: the script's first record (auto-approved at P1) has been
\* rejected by an admin, a pending record lies at P1 too, and a summary of
\* P1 counts other records but neither of them.
C8_Witness ==
    /\ observed.kind = "summary"
    /\ observed.feedbacks # <<>>
    /\ Len(store) >= 3
    /\ store[1].rating = 5
    /\ store[1].approval_status = "rejected"
    /\ store[3].approval_status = "pending"
    /\ \A k \in DOMAIN observed.feedbacks : observed.feedbacks[k].id \notin {1, 3}

-----------------------------------------------------------------------------
(* Spec: two clients whose requests interleave step by step.  Each step of *)
(* feedback_view is one access to the table, the file or the weights, and  *)
(* nothing orders the steps of different requests.                         *)

MaxEvents == 2

Clients == {1, 2}

Scripts ==
    {Script(9, <<UserId(1)>>, 2, 5),
     Script(8, <<UserId(1)>>, 2, 5)}

Payloads ==
    {Payload(UserId(1), P1, 5, NoComment, General),
     Payload(UserId(1), P2, 5, NoComment, General)}

Init == InitFrom(Scripts, Clients, MaxEvents)

Next ==
    \/ Scripted
    \/ Warm /\ \E p \in Clients, data \in Payloads : Submit(p, data)
    \/ \E p \in Clients : CreateOk(p)
    \/ \E p \in Clients : JsonRead(p)
    \/ \E p \in Clients : JsonWrite(p)
    \/ \E p \in Clients : RefreshWeights(p)

Spec == Init /\ [][Next]_vars

\* C2: for every interleaving of concurrent submissions of one user_id
\* (count read, insert later), the store never holds more than 10 records of
\* that user_id created on the same calendar day.
C2_DailyLimitConcurrent ==
    \A i \in DOMAIN store :
        store[i].user_id # <<>> =>
            Cardinality({j \in DOMAIN store :
                            /\ store[j].user_id = store[i].user_id
                            /\ DateOf(store[j].created_at)
                                  = DateOf(store[i].created_at)})
                <= max_feedback_per_user_per_day

-----------------------------------------------------------------------------
(* SpecAgg: the Aggregator and the blended score on locations with about   *)
(* min_feedback_threshold qualifying records.                              *)

MaxEventsAgg == 2

ScriptLen == min_feedback_threshold

DistinctUsers(n) == [k \in 1..n |-> UserId(k)]

ScriptsAgg ==
    {Script(ScriptLen, DistinctUsers(ScriptLen), 2, 9),
     Script(ScriptLen, DistinctUsers(5), 2, 9),
     Script(ScriptLen, <<ANON>>, 2, 9),
     Script(ScriptLen - 1, DistinctUsers(ScriptLen - 1), 2, 9),
     Script(ScriptLen + 10, DistinctUsers(ScriptLen + 10), 240, 9),
     Script(8, DistinctUsers(2), 240, 4)}

PayloadsAgg ==
    {Payload(UserId(ScriptLen + 1), P1, 9, NoComment, General),
     Payload(UserId(1), P1, 3, NoComment, General)}

FeaturesAgg ==
    {AllFeatures(Rat(8, 10)), AllFeatures(RInt(0)), AllFeatures(Rat(15, 10))}

InitAgg == InitFrom(ScriptsAgg, {1}, MaxEventsAgg)

NextAgg ==
    \/ Scripted
    \/ Warm /\ \E data \in PayloadsAgg : Submit(1, data)
    \/ CreateOk(1)
    \/ JsonRead(1)
    \/ JsonWrite(1)
    \/ RefreshWeights(1)
    \/ Between /\ Reject(1, "admin", "spam")
    \/ Between /\ Tick(2)
    \/ Between /\ Summary(P1[1], P1[2], location_radius_meters)
    \/ Between /\ \E features \in FeaturesAgg, read_fails \in BOOLEAN :
                      ScoreWithFeedback(features, P1[1], P1[2], read_fails)

SpecAgg == InitAgg /\ [][NextAgg]_vars

\* C9: the summary's meets_threshold flag is true iff the number of distinct
\* user_ids among the qualifying records is at least 50.
C9_ThresholdCountsDistinctUsers ==
    observed.kind = "summary" =>
        (observed.result[1].meets_threshold
            <=> observed.result[1].unique_users >= 50)

\* C10: score_with_location_feedback returns
\* clamp(aiScore*0.6 + feedbackScore*10*0.4, 1, 10), method blended and
\* weights 0.6/0.4 when the summary's meets_threshold is true, and
\* clamp(aiScore, 1, 10) with weights 1.0/0.0 when it is false, where the
\* summary is the one of the table at the time of the call.
C10_BlendFormula ==
    /\ [](observed.kind = "score" =>
            LET r == observed.result[1]
                ai == r.base_score
                fb == r.safety_score_from_feedback
                \* 10 * (ai*0.6 + fb*10*0.4) = 6*ai + 40*fb
                tenfold == RAdd(<<6 * ai[1], ai[2]>>, <<40 * fb[1], fb[2]>>)
                expected == IF r.has_sufficient_feedback
                            THEN <<tenfold[1], 10 * tenfold[2]>>
                            ELSE ai
                clamped == IF RLt(expected, RInt(1)) THEN RInt(1)
                           ELSE IF RLt(RInt(10), expected) THEN RInt(10)
                           ELSE expected
            IN  /\ r.final_score[1] * clamped[2] = clamped[1] * r.final_score[2]
                /\ r.has_sufficient_feedback =>
                      /\ r.scoring_method = "blended_ai_user_feedback"
                      /\ r.ai_score_weight = <<3, 5>>
                      /\ r.user_feedback_weight = <<2, 5>>
                /\ ~r.has_sufficient_feedback =>
                      /\ r.scoring_method = "ai_only_insufficient_feedback"
                      /\ r.ai_score_weight = <<1, 1>>
                      /\ r.user_feedback_weight = <<0, 1>>)
    /\ [][(observed' # observed /\ observed'.kind = "score") =>
            LET r == observed'.result[1]
                s == get_location_feedback_summary(
                        IF observed'.args[4] THEN DB_ERROR ELSE store',
                        P1[1], P1[2], location_radius_meters, now')
            IN  /\ r.has_sufficient_feedback = s.meets_threshold
                /\ r.safety_score_from_feedback = s.safety_score
                /\ \E features \in FeaturesAgg :
                      r.base_score = score(weights', features, RInt(1), RInt(1))
          ]_vars

\* C10 witness: aiScore 8.0, feedbackScore 0.9, threshold met: final 8.4.
C10_Witness ==
    /\ observed.kind = "score"
    /\ observed.result[1].has_sufficient_feedback
    /\ observed.result[1].base_score = <<8, 1>>
    /\ observed.result[1].safety_score_from_feedback = <<9, 10>>
    /\ observed.result[1].final_score = <<42, 5>>
    /\ observed.result[1].scoring_method = "blended_ai_user_feedback"

\* C11: when all qualifying records in the radius carry the same rating r,
\* the feedback safety score is r/10 whatever their ages and is_trusted_user
\* flags; 60 approved records of 60 distinct users, all rating 9, give
\* meets_threshold = true and safety_score = 0.9.
C11_UniformRatingScore ==
    (observed.kind = "summary" /\ observed.feedbacks # <<>>) =>
        LET fbs == observed.feedbacks
            r == fbs[1].rating
            s == observed.result[1]
        IN  /\ (\A k \in DOMAIN fbs : fbs[k].rating = r)
                  => s.safety_score[1] * 10 = r * s.safety_score[2]
            /\ (/\ Len(fbs) = 60
                /\ Cardinality({fbs[k].user_id : k \in DOMAIN fbs}) = 60
                /\ \A k \in DOMAIN fbs : fbs[k].rating = 9)
                  => s.meets_threshold /\ s.safety_score = <<9, 10>>

\* C11 witness: 60 auto-approved records of 60 distinct users, all rating 9,
\* created over several months, are summarised with score 0.9 and the
\* threshold met.
C11_Witness ==
    /\ observed.kind = "summary"
    /\ Len(observed.feedbacks) = 60
    /\ Cardinality({observed.feedbacks[k].user_id :
                        k \in DOMAIN observed.feedbacks}) = 60
    /\ \A k \in DOMAIN observed.feedbacks : observed.feedbacks[k].rating = 9
    /\ \E j, k \in DOMAIN observed.feedbacks :
          (now - observed.feedbacks[j].created_at) \div 24
              # (now - observed.feedbacks[k].created_at) \div 24
    /\ observed.result[1].meets_threshold
    /\ observed.result[1].safety_score = <<9, 10>>

\* C12: a summary query for which no record qualifies (none stored, none
\* approved, none in the box, or none young enough) returns the neutral
\* summary: safety_score 0.5, meets_threshold false, feedback_count 0 and
\* unique_users 0.
C12_NeutralSummary ==
    [][(observed' # observed /\ observed'.kind = "summary") =>
        LET latitude == observed'.args[1]
            radius == observed'.args[3]
            s == observed'.result[1]
            none_stored == store' = <<>>
            none_approved ==
                \A i \in DOMAIN store' :
                    store'[i].approval_status \in {"pending", "rejected"}
            none_in_box ==
                \A i \in DOMAIN store' :
                    111 * Abs(store'[i].latitude - latitude) > radius
            none_young ==
                \A i \in DOMAIN store' :
                    now' - store'[i].created_at > 24 * max_feedback_age_days
        IN  (none_stored \/ none_approved \/ none_in_box \/ none_young
                \/ observed'.feedbacks = <<>>)
            => /\ s.safety_score = <<1, 2>>
               /\ ~s.meets_threshold
               /\ s.feedback_count = 0
               /\ s.unique_users = 0
               /\ observed'.feedbacks = <<>>]_vars

\* C12 witness: a neutral summary was returned for a place whose only
\* records are older than max_feedback_age_days (they are auto-approved and
\* at the query centre).
C12_Witness ==
    /\ observed.kind = "summary"
    /\ observed.result[1].safety_score = <<1, 2>>
    /\ observed.result[1].feedback_count = 0
    /\ ~observed.result[1].meets_threshold
    /\ Len(store) >= 2
    /\ \A i \in DOMAIN store :
          /\ store[i].approval_status = "auto_approved"
          /\ <<store[i].latitude, store[i].longitude>>
                = <<observed.args[1], observed.args[2]>>
          /\ now - store[i].created_at > 24 * max_feedback_age_days

-----------------------------------------------------------------------------
(* SpecWeights: the shared weight table under successive adaptation calls, *)
(* made one at a time, with the regional mean below 5, above 8, in         *)
(* between, or absent.                                                     *)

MaxEventsWeights == 3

ScriptsWeights == {Script(1, <<ANON>>, 2, 5)}

PayloadsWeights ==
    {Payload(ANON, P1, 2, NoComment, Tourist),
     Payload(ANON, P1, 9, NoComment, Tourist),
     Payload(ANON, P1, 6, NoComment, Tourist),
     Payload(ANON, P1, 5, NoComment, General)}

InitWeights == InitFrom(ScriptsWeights, {1}, MaxEventsWeights)

NextWeights ==
    \/ Scripted
    \/ Warm /\ \E data \in PayloadsWeights : Submit(1, data)
    \/ CreateOk(1)
    \/ JsonRead(1)
    \/ JsonWrite(1)
    \/ RefreshWeights(1)

SpecWeights == InitWeights /\ [][NextWeights]_vars

\* C13: after every call of update_weights_from_feedback, whatever the
\* regional mean was (below 5, above 8, in between, no data), the weights
\* sum to 1 (in exact arithmetic; binary rounding is not modelled), also
\* after successive calls made one at a time.
C13_WeightsSumToOne ==
    /\ [](observed.kind = "weights" => WeightSum(weights) = <<1, 1>>)
    /\ [][weights' # weights => WeightSum(weights') = <<1, 1>>]_vars

\* C13 witness: after a call without data, two successive calls with a
\* regional mean below 5 have been made (two tourist records rated 2 are
\* averaged, police_stations has grown beyond 0.15) and the weights sum
\* to 1.
C13_Witness ==
    /\ observed.kind = "weights"
    /\ Len(observed.feedbacks) >= 2
    /\ \A k \in DOMAIN observed.feedbacks : observed.feedbacks[k].rating = 2
    /\ RLt(Rat(15, 100), weights["police_stations"])
    /\ WeightSum(weights) = <<1, 1>>

\* C14: round trip through the store and the Aggregator: for every query
\* latitude in [-90, 90], latitude 0 included, and every positive radius, an
\* approved or auto_approved record not older than 365 days whose
\* coordinates equal the query centre is included in the summary with its
\* rating and coordinates unchanged (feedback_count >= 1).
C14_RoundTripAtCentre ==
    [][(observed' # observed /\ observed'.kind = "summary") =>
        \A i \in DOMAIN store' :
            (/\ store'[i].approval_status \in {"approved", "auto_approved"}
             /\ now' - store'[i].created_at <= 24 * max_feedback_age_days
             /\ store'[i].latitude = observed'.args[1]
             /\ store'[i].longitude = observed'.args[2])
            => /\ observed'.result[1].feedback_count >= 1
               /\ \E k \in DOMAIN observed'.feedbacks :
                     /\ observed'.feedbacks[k].id = i
                     /\ observed'.feedbacks[k].rating = store'[i].rating
                     /\ observed'.feedbacks[k].latitude = store'[i].latitude
                     /\ observed'.feedbacks[k].longitude = store'[i].longitude
      ]_vars

\* C15: when the store insert of a validated submission fails, the request
\* fails: no record is created with another approval status than the
\* Validator decided, the response reports no approval the Validator did not
\* grant, and neither the JSON mirror nor the weight table is updated for it.
C15_InsertFailurePropagates ==
    \A p \in DOMAIN req :
        req[p].db_error =>
            /\ req[p].fb # <<>> =>
                  req[p].fb[1].approval_status = req[p].decided
            /\ req[p].resp # <<>> =>
                  /\ req[p].resp[1].http # 201
                  /\ req[p].resp[1].approval_status
                        \in {"approved", "auto_approved"}
                     => req[p].decided \in {"approved", "auto_approved"}
            /\ req[p].pc \notin {"json_write", "weights"}
            /\ req[p].fb # <<>> =>
                  \A k \in DOMAIN feedback_json :
                      feedback_json[k].id # req[p].fb[1].id

\* C16: when the Aggregator's store read fails during
\* score_with_location_feedback, the call does not raise: it returns the
\* AI-only score (method ai_only, weights 1.0/0.0) clamped to [1,10].
C16_ReadFailureFallsBack ==
    /\ [](observed.kind = "score" /\ observed.args[4] =>
            LET r == observed.result[1]
            IN  /\ r.scoring_method = "ai_only_insufficient_feedback"
                /\ ~r.has_sufficient_feedback
                /\ r.ai_score_weight = <<1, 1>>
                /\ r.user_feedback_weight = <<0, 1>>
                /\ r.final_score = r.base_score
                /\ RLe(RInt(1), r.final_score) /\ RLe(r.final_score, RInt(10)))
    /\ [][(observed' # observed /\ observed'.kind = "score"
            /\ observed'.args[4]) =>
            observed'.result[1].base_score
                = score(weights', observed'.args[1], RInt(1), RInt(1))]_vars

\* C16 witness: the read failed for a location that holds at least 50
\* qualifying records (a working read would have blended), and the AI score
\* 8.0 was returned alone.
C16_Witness ==
    /\ observed.kind = "score"
    /\ observed.args[4]
    /\ get_location_feedback_summary(store, observed.args[2], observed.args[3],
                                     location_radius_meters, now).meets_threshold
    /\ observed.result[1].scoring_method = "ai_only_insufficient_feedback"
    /\ observed.result[1].final_score = <<8, 1>>

-----------------------------------------------------------------------------
(* SpecCombined: the public score endpoint and direct calls of the scoring *)
(* engine, after no feedback, one feedback, or a full sample of feedback   *)
(* at P1, with further submissions in between.                             *)

MaxEventsCombined == 2

ScriptsCombined ==
    {Script(0, <<ANON>>, 2, 5),
     Script(1, <<ANON>>, 2, 5),
     Script(ScriptLen, DistinctUsers(ScriptLen), 240, 7)}

PayloadsCombined ==
    {Payload(ANON, P1, 3, NoComment, General),
     Payload(ANON, P2, 8, NoComment, General),
     Payload(ANON, P1, 6, NoComment, Tourist)}

SurroundingsCombined == {Surroundings(Rat(1, 2)), Surroundings(Rat(9, 10))}

PlacesCombined == {P1, P1East, P2}

\* feature dictionaries for direct calls: none, only names outside the
\* weight table, some factors absent, values outside [0, 1], all 0, all 1
FeaturesScore ==
    {<<>>,
     [f \in {"openness", "security_features"} |-> Rat(1, 2)],
     [f \in {"lighting", "crime_rate", "hospitals", "openness"} |->
        IF f = "lighting" THEN RInt(1)
        ELSE IF f = "crime_rate" THEN Rat(1, 2) ELSE Rat(1, 5)],
     [f \in {"lighting", "police_stations", "transport"} |->
        IF f = "lighting" THEN Rat(3, 2)
        ELSE IF f = "police_stations" THEN Rat(-1, 2) ELSE Rat(1, 2)],
     [f \in FACTORS |-> RInt(0)],
     [f \in FACTORS |-> RInt(1)]}

WeatherMuls == {RInt(1), Rat(7, 10), RInt(2)}

IncidentMuls == {RInt(1), Rat(1, 2)}

InitCombined == InitFrom(ScriptsCombined, {1}, MaxEventsCombined)

NextCombined ==
    \/ Scripted
    \/ Warm /\ \E data \in PayloadsCombined : Submit(1, data)
    \/ CreateOk(1)
    \/ JsonRead(1)
    \/ JsonWrite(1)
    \/ RefreshWeights(1)
    \/ Warm /\ \E surroundings \in SurroundingsCombined,
                   place \in PlacesCombined :
            CombinedData(surroundings, place[1], place[2], DefaultRadius)
    \/ Warm /\ \E features \in FeaturesScore, weather_mul \in WeatherMuls,
                   incident_mul \in IncidentMuls :
            Score(features, weather_mul, incident_mul)

SpecCombined == InitCombined /\ [][NextCombined]_vars

\* C17: the score the public score endpoint returns is influenced by the
\* feedback near a location only once 50 feedbacks lie there: with fewer, it
\* equals the score of the same surroundings without any feedback.
C17_FeedbackOnlyAboveThreshold ==
    (observed.kind = "combined"
        /\ observed.result[1].user_feedback_count < min_feedback_threshold)
    => observed.result[1].overall_safety_score
          = combined_data_view(weights, <<>>, observed.args[1],
                observed.args[2], observed.args[3],
                observed.args[4]).overall_safety_score

\* The weighted mean the score is specified to be, summed over the set of
\* recognised features present.
Recognised(features) == FACTORS \cap DOMAIN features

Contribution(f, features, weather_mul, incident_mul) ==
    LET v == features[f]
        clamped == IF RLt(v, RInt(0)) THEN RInt(0)
                   ELSE IF RLt(RInt(1), v) THEN RInt(1) ELSE v
        mul == IF f \in {"lighting", "visibility"} THEN weather_mul
               ELSE IF f = "crime_rate" THEN incident_mul ELSE RInt(1)
    IN  RMul(clamped, mul)

RECURSIVE WeightedTotal(_, _, _, _, _)
WeightedTotal(S, w, features, weather_mul, incident_mul) ==
    IF S = {} THEN RInt(0)
    ELSE LET f == CHOOSE x \in S : TRUE
         IN  RAdd(RMul(Contribution(f, features, weather_mul, incident_mul),
                       w[f]),
                  WeightedTotal(S \ {f}, w, features, weather_mul,
                                incident_mul))

RECURSIVE WeightTotal(_, _)
WeightTotal(S, w) ==
    IF S = {} THEN RInt(0)
    ELSE LET f == CHOOSE x \in S : TRUE
         IN  RAdd(w[f], WeightTotal(S \ {f}, w))

SpecifiedScore(w, features, weather_mul, incident_mul) ==
    LET S == Recognised(features)
        mean10 == RMul(RDiv(WeightedTotal(S, w, features, weather_mul,
                                          incident_mul),
                            WeightTotal(S, w)),
                       RInt(10))
    IN  IF S = {} THEN RInt(5)
        ELSE IF RLt(mean10, RInt(1)) THEN RInt(1)
        ELSE IF RLt(RInt(10), mean10) THEN RInt(10)
        ELSE mean10

\* C18: score(features) is the sum of value * weight over the recognised
\* features present (each value clamped to [0, 1] and multiplied by its
\* weather or incident multiplier), divided by the sum of those weights,
\* times 10, clamped to [1, 10]; names outside the weight table and absent
\* features are skipped; without any recognised feature the result is 5.
C18_ScoreFormula ==
    /\ observed.kind = "scored" =>
          observed.result[1]
            = SpecifiedScore(weights, observed.args[1], observed.args[2],
                             observed.args[3])
    /\ observed.kind = "combined" =>
          observed.result[1].ai_safety_score
            = SpecifiedScore(weights, observed.result[1].features,
                             RInt(1), RInt(1))

\* C18 witness: a direct call with a name outside the weight table, most
\* factors absent, a value above 1, a value below 0 and a weather multiplier
\* below 1 has returned a score strictly between 1 and 10.
C18_Witness ==
    /\ observed.kind = "scored"
    /\ DOMAIN observed.args[1] = {"lighting", "police_stations", "transport"}
    /\ observed.args[1]["lighting"] = Rat(3, 2)
    /\ observed.args[1]["police_stations"] = Rat(-1, 2)
    /\ observed.args[2] = Rat(7, 10)
    /\ RLt(RInt(1), observed.result[1])
    /\ RLt(observed.result[1], RInt(10))

-----------------------------------------------------------------------------
(* SpecOutliers: summaries of P1 over a few records rated 4 and the        *)
(* ratings one trusted user adds.                                          *)

MaxEventsOutliers == 2

ScriptsOutliers ==
    {Script(2, DistinctUsers(2), 240, 4),
     Script(6, DistinctUsers(2), 240, 4)}

PayloadsOutliers ==
    {Payload(UserId(1), P1, 6, NoComment, General),
     Payload(UserId(1), P1, 7, NoComment, General),
     Payload(UserId(1), P1, 9, NoComment, General)}

InitOutliers == InitFrom(ScriptsOutliers, {1}, MaxEventsOutliers)

NextOutliers ==
    \/ Scripted
    \/ Warm /\ \E data \in PayloadsOutliers : Submit(1, data)
    \/ CreateOk(1)
    \/ JsonRead(1)
    \/ JsonWrite(1)
    \/ RefreshWeights(1)
    \/ Summary(P1[1], P1[2], location_radius_meters)

SpecOutliers == InitOutliers /\ [][NextOutliers]_vars

\* the ratings a summary was computed from, their number, sum and sum of
\* squares
SummaryRatings == RatingsOf(observed.feedbacks)

SummaryN == Len(SummaryRatings)

SummarySum == SeqSum(SummaryRatings)

SummarySquares ==
    SeqSum([k \in 1..SummaryN |-> SummaryRatings[k] * SummaryRatings[k]])

\* the ratings further than 2 standard deviations from the mean, the
\* variance being the sum of squared deviations over divisor:
\* (n r - S)^2 / n^2 > 4 (n Q - S^2) / (n divisor)
FarRatings(divisor) ==
    {k \in 1..SummaryN :
        (SummaryN * SummaryRatings[k] - SummarySum)
            * (SummaryN * SummaryRatings[k] - SummarySum) * divisor
        > 4 * SummaryN * (SummaryN * SummarySquares - SummarySum * SummarySum)}

\* C19: the summary's outlier count is 0 when fewer than 3 ratings qualify,
\* and otherwise the number of ratings whose absolute deviation from the
\* mean is strictly greater than 2.0 times the sample standard deviation
\* (divisor n - 1) of the qualifying ratings.
C19_OutlierCountSample ==
    observed.kind = "summary" =>
        observed.result[1].outlier_count
            = IF SummaryN < 3 THEN 0
              ELSE Cardinality(FarRatings(SummaryN - 1))

\* C19 as stated: ... 2.0 times the population standard deviation (divisor
\* n) of the qualifying ratings.
C19_OutlierCountPopulation ==
    observed.kind = "summary" =>
        observed.result[1].outlier_count
            = IF SummaryN < 3 THEN 0
              ELSE Cardinality(FarRatings(SummaryN))

\* C19 witness: a summary over six ratings of 4 and one of 9 counts one
\* outlier.
C19_Witness ==
    /\ observed.kind = "summary"
    /\ SummaryN = 7
    /\ \E k \in 1..SummaryN : SummaryRatings[k] = 9
    /\ observed.result[1].outlier_count = 1

\* C20: an entry appended to the JSON feedback store by read, append, write
\* is the last entry of the store afterwards and every entry that was there
\* before is still there, also when the read-append-write sequences of two
\* submissions interleave (no appended entry is lost).
C20_AppendKeepsEntries ==
    [][/\ feedback_json' # feedback_json =>
            /\ Len(feedback_json') = Len(feedback_json) + 1
            /\ SubSeq(feedback_json', 1, Len(feedback_json)) = feedback_json
       /\ \A p \in DOMAIN req :
            (req[p].pc = "json_write" /\ req'[p].pc # "json_write") =>
                feedback_json'[Len(feedback_json')]
                    = FeedbackEntry(req[p].fb[1], req[p].data[1],
                                    req[p].approval_status)]_vars

-----------------------------------------------------------------------------
(* Further claims about submissions handled one at a time (SpecSeq)        *)

\* the records within 0.001 degrees of a place, created from hour t - 1 on
NearbyRecent(lat, lon, t) ==
    {j \in DOMAIN store :
        /\ store[j].latitude - lat \in -1..1
        /\ store[j].longitude - lon \in -1..1
        /\ store[j].created_at >= t - 1}

\* a request arrives at client p in this step
Arrives(p) == req[p].pc = "idle" /\ req'[p] # req[p]

\* the records created up to record i, in the hour up to its creation,
\* within 0.001 degrees of it
AroundRecord(i) ==
    {j \in NearbyRecent(store[i].latitude, store[i].longitude,
                        store[i].created_at) : j <= i}

LocationLimitKept ==
    \A i \in DOMAIN store : Cardinality(AroundRecord(i)) <= 5

\* C21 as stated: whenever at least 5 records created in the trailing hour
\* lie within 0.001 degrees of a submission, it is rejected with the
\* location limit error; hence no record has more than 5 records around it.
C21_LocationLimitAlways ==
    /\ [][\A p \in DOMAIN req :
            (/\ Arrives(p)
             /\ req'[p].data[1].latitude # <<>>
             /\ req'[p].data[1].longitude # <<>>
             /\ Cardinality(NearbyRecent(req'[p].data[1].latitude[1],
                                         req'[p].data[1].longitude[1],
                                         now)) >= 5)
            => /\ ~req'[p].is_valid
               /\ req'[p].validation_errors = <<ERR_LOCATION>>]_vars
    /\ []LocationLimitKept

\* the submission passes the checks that run before the location limit
PassesEarlierChecks(data) ==
    /\ data.latitude # <<>> /\ data.longitude # <<>> /\ data.rating # <<>>
    /\ data.latitude[1] \in -90000..90000
    /\ data.longitude[1] \in -180000..180000
    /\ data.rating[1] \in 1..10
    /\ data.comment.len > 0 =>
          ~data.comment.suspicious /\ data.comment.len <= 1000
    /\ data.user_id # <<>> =>
          Cardinality(SameDayRowsOf(data.user_id, now \div 24)) < 10

\* C21, amended: a submission that passes the field, coordinate, rating and
\* content checks and the daily limit is rejected with the location limit
\* error whenever at least 5 records created in the trailing hour lie within
\* 0.001 degrees of it; hence, after submissions processed one at a time,
\* no record has more than 5 records around it.
C21_LocationLimitSequential ==
    /\ [][\A p \in DOMAIN req :
            (/\ Arrives(p)
             /\ PassesEarlierChecks(req'[p].data[1])
             /\ Cardinality(NearbyRecent(req'[p].data[1].latitude[1],
                                         req'[p].data[1].longitude[1],
                                         now)) >= 5)
            => /\ ~req'[p].is_valid
               /\ req'[p].validation_errors = <<ERR_LOCATION>>]_vars
    /\ []LocationLimitKept

\* C21 witness: a submission has been rejected with the location limit
\* error while exactly 5 records of the last hour lie around its place, and
\* the newest of them has all 5 around it.
C21_Witness ==
    \E p \in DOMAIN req :
        /\ req[p].pc = "idle"
        /\ req[p].data # <<>>
        /\ req[p].validation_errors = <<ERR_LOCATION>>
        /\ Cardinality(NearbyRecent(Submitted(p).latitude[1],
                                    Submitted(p).longitude[1], now)) = 5
        /\ Cardinality(AroundRecord(Len(store))) = 5

-----------------------------------------------------------------------------
(* SpecRace: two clients whose requests reach the weight refresh at the    *)
(* same time; the refresh is two accesses to the shared weight table.      *)

MaxEventsRace == 2

ScriptsRace == {Script(1, <<UserId(1)>>, 2, 5)}

PayloadsRace ==
    {Payload(UserId(1), P1, 5, NoComment, General),
     Payload(UserId(2), P2, 2, NoComment, Tourist)}

InitRace == InitFrom(ScriptsRace, Clients, MaxEventsRace)

NextRace ==
    \/ Scripted
    \/ Warm /\ \E p \in Clients, data \in PayloadsRace : Submit(p, data)
    \/ \E p \in Clients : CreateOk(p)
    \/ \E p \in Clients : JsonRead(p)
    \/ \E p \in Clients : JsonWrite(p)
    \/ \E p \in Clients : WeightsAdapt(p)
    \/ \E p \in Clients : WeightsNormalise(p)

SpecRace == InitRace /\ [][NextRace]_vars

\* C22: concurrent calls of update_weights_from_feedback are equivalent to
\* some serial order of the same calls: when a call returns, the weights
\* sum to 1, and as long as there is no regional data (every serial order
\* then yields the normalised initial table) the table is that table.
C22_UpdatesSerializable ==
    [][\A p \in DOMAIN req :
        (req[p].pc = "normalise" /\ req'[p].pc = "idle") =>
            /\ WeightSum(weights') = <<1, 1>>
            /\ TnTourism(store') = <<>> =>
                  weights' = update_weights_from_feedback(InitialWeights, <<>>)
      ]_vars

\* The five checks as the claim lists them, each stated on the submission
\* and the table alone: the message of a failing check, <<>> otherwise.
FieldsCheck(data) ==
    IF <<>> \in {data.latitude, data.longitude, data.rating}
    THEN <<ERR_MISSING>> ELSE <<>>

CoordinatesCheck(data) ==
    IF data.latitude[1] \notin -90000..90000 THEN <<ERR_LAT>>
    ELSE IF data.longitude[1] \notin -180000..180000 THEN <<ERR_LON>>
    ELSE <<>>

RatingCheck(data) ==
    IF data.rating[1] \notin 1..10 THEN <<ERR_RATING>> ELSE <<>>

ContentCheck(data) ==
    IF data.comment.len > 0 /\ data.comment.suspicious THEN <<ERR_SUSPICIOUS>>
    ELSE IF data.comment.len > 1000 THEN <<ERR_TOO_LONG>>
    ELSE <<>>

RateLimitsCheck(data) ==
    IF data.user_id # <<>>
       /\ Cardinality(SameDayRowsOf(data.user_id, now \div 24)) >= 10
    THEN <<ERR_DAILY>>
    ELSE IF Cardinality(NearbyRecent(data.latitude[1], data.longitude[1],
                                     now)) >= 5
    THEN <<ERR_LOCATION>>
    ELSE <<>>

\* the message of the first failing check in the fixed order
FirstFailure(data) ==
    IF FieldsCheck(data) # <<>> THEN FieldsCheck(data)
    ELSE IF CoordinatesCheck(data) # <<>> THEN CoordinatesCheck(data)
    ELSE IF RatingCheck(data) # <<>> THEN RatingCheck(data)
    ELSE IF ContentCheck(data) # <<>> THEN ContentCheck(data)
    ELSE RateLimitsCheck(data)

\* C23: validate_feedback runs required fields, coordinate bounds, rating
\* bounds, content screen, rate limits in this order and stops at the first
\* check that fails: a rejected result carries exactly the message of the
\* first failing check, and is_valid is true exactly when the status is not
\* rejected, in which case the error list is empty.
C23_FirstFailureOnly ==
    [][\A p \in DOMAIN req :
        Arrives(p) =>
            LET first == FirstFailure(req'[p].data[1])
                r == req'[p]
            IN  /\ r.is_valid <=> r.approval_status # "rejected"
                /\ r.is_valid <=> first = <<>>
                /\ r.validation_errors = first
                /\ Len(r.validation_errors) <= 1
      ]_vars

\* C23 witness: a submission with a latitude out of bounds, a rating out of
\* bounds and a suspicious comment has been rejected with the latitude
\* message alone.
C23_Witness ==
    \E p \in DOMAIN req :
        /\ req[p].data # <<>>
        /\ Submitted(p).latitude = <<90001>>
        /\ Submitted(p).rating = <<11>>
        /\ Submitted(p).comment.suspicious
        /\ ~req[p].is_valid
        /\ req[p].approval_status = "rejected"
        /\ req[p].validation_errors = <<ERR_LAT>>

-----------------------------------------------------------------------------
(* SpecCeilings: adaptation calls, one at a time, on the table of          *)
(* ScoringEngine.__init__ and on the two tables the engine holds after a   *)
(* long run of calls with a regional mean below 5 (above 8): there the     *)
(* raised weights stand at their ceilings and the other weights keep their *)
(* initial proportions.  These are the limits of the exact iteration; the  *)
(* engine's binary arithmetic reaches them after about a hundred calls.    *)

MaxEventsCeilings == 2

\* the initial table with the weights in held at their ceilings top and the
\* rest scaled to a sum of 1
SettledWeights(top) ==
    LET held == RSeqSum([k \in 1..Len(FactorOrder) |->
                    IF FactorOrder[k] \in DOMAIN top
                    THEN top[FactorOrder[k]] ELSE RInt(0)])
        rest == RSeqSum([k \in 1..Len(FactorOrder) |->
                    IF FactorOrder[k] \in DOMAIN top
                    THEN RInt(0) ELSE InitialWeights[FactorOrder[k]]])
    IN  [f \in FACTORS |->
            IF f \in DOMAIN top THEN top[f]
            ELSE RDiv(RMul(InitialWeights[f], RSub(RInt(1), held)), rest)]

LowCeilings ==
    [f \in {"police_stations", "lighting", "visibility"} |->
        IF f = "visibility" THEN Rat(20, 100) ELSE Rat(25, 100)]

HighCeilings ==
    [f \in {"businesses", "transport"} |->
        IF f = "businesses" THEN Rat(15, 100) ELSE Rat(20, 100)]

WeightTables ==
    {InitialWeights, SettledWeights(LowCeilings), SettledWeights(HighCeilings)}

PayloadsCeilings ==
    {Payload(ANON, P1, 2, NoComment, Tourist),
     Payload(ANON, P1, 9, NoComment, Tourist),
     Payload(ANON, P1, 6, NoComment, Tourist),
     Payload(ANON, P1, 5, NoComment, General)}

InitCeilings ==
    /\ store = <<>>
    /\ feedback_json = <<>>
    /\ weights \in WeightTables
    /\ now = 0
    /\ req = [p \in {1} |-> NoRequest]
    /\ observed = [kind |-> "none", args |-> <<>>, feedbacks |-> <<>>,
                   result |-> <<>>]
    /\ env = [script |-> Script(0, <<ANON>>, 2, 5), done |-> 0,
              events |-> MaxEventsCeilings]

NextCeilings ==
    \/ \E data \in PayloadsCeilings : Submit(1, data)
    \/ CreateOk(1)
    \/ JsonRead(1)
    \/ JsonWrite(1)
    \/ RefreshWeights(1)

SpecCeilings == InitCeilings /\ [][NextCeilings]_vars

\* the regional mean a call reads: of the approved Tamil Nadu tourist
\* records, as a pair <<sum, count>>
RegionalRatings(st) ==
    {i \in DOMAIN st :
        /\ st[i].approval_status \in {"approved", "auto_approved"}
        /\ st[i].region = "Tamil Nadu"
        /\ st[i].place_type = "tourist_place"}

RECURSIVE RatingTotal(_, _)
RatingTotal(st, S) ==
    IF S = {} THEN 0
    ELSE LET i == CHOOSE x \in S : TRUE
         IN  st[i].rating + RatingTotal(st, S \ {i})

MeanBelow5(st) ==
    /\ RegionalRatings(st) # {}
    /\ RatingTotal(st, RegionalRatings(st)) < 5 * Cardinality(RegionalRatings(st))

MeanAbove8(st) ==
    /\ RegionalRatings(st) # {}
    /\ RatingTotal(st, RegionalRatings(st)) > 8 * Cardinality(RegionalRatings(st))

\* the weights a call of that mean may raise, with increment and ceiling
MayRaise(st) ==
    IF MeanBelow5(st)
    THEN [f \in {"police_stations", "lighting", "visibility"} |->
            IF f = "police_stations" THEN <<Rat(3, 100), Rat(25, 100)>>
            ELSE IF f = "lighting" THEN <<Rat(2, 100), Rat(25, 100)>>
            ELSE <<Rat(2, 100), Rat(20, 100)>>]
    ELSE IF MeanAbove8(st)
    THEN [f \in {"businesses", "transport"} |->
            IF f = "businesses" THEN <<Rat(2, 100), Rat(15, 100)>>
            ELSE <<Rat(2, 100), Rat(20, 100)>>]
    ELSE <<>>

\* the table before renormalisation, recovered from the table after it:
\* hospitals is never raised, so the divisor is old over new hospitals
BeforeRenormalisation(old, new) ==
    [f \in FACTORS |->
        RMul(new[f], RDiv(old["hospitals"], new["hospitals"]))]

WithinCeilings(w) ==
    /\ RLe(w["police_stations"], Rat(25, 100))
    /\ RLe(w["lighting"], Rat(25, 100))
    /\ RLe(w["visibility"], Rat(20, 100))
    /\ RLe(w["businesses"], Rat(15, 100))
    /\ RLe(w["transport"], Rat(20, 100))

-----------------------------------------------------------------------------
(* SpecFrame: one client, an admin and the read-only services on a table   *)
(* of one user's records, all pending or all auto-approved.                *)

MaxEventsFrame == 3

ScriptsFrame ==
    {Script(trusted_user_threshold, <<UserId(1)>>, 2, 10),
     Script(trusted_user_threshold + 1, <<UserId(1)>>, 2, 5)}

PayloadsFrame == {Payload(UserId(1), P2, 2, NoComment, Tourist)}

InitFrame == InitFrom(ScriptsFrame, {1}, MaxEventsFrame)

NextFrame ==
    \/ Scripted
    \/ Warm /\ \E data \in PayloadsFrame : Submit(1, data)
    \/ CreateOk(1)
    \/ JsonRead(1)
    \/ JsonWrite(1)
    \/ RefreshWeights(1)
    \/ Between /\ \E id \in DOMAIN store : Approve(id, "admin")
    \/ Between /\ \E id \in DOMAIN store : Reject(id, "admin", "spam")
    \/ Between /\ Summary(P1[1], P1[2], location_radius_meters)
    \/ Between /\ ScoreWithFeedback(AllFeatures(Rat(8, 10)), P1[1], P1[2], FALSE)

SpecFrame == InitFrame /\ [][NextFrame]_vars

SameContent(a, b) ==
    /\ a.rating = b.rating
    /\ a.latitude = b.latitude
    /\ a.longitude = b.longitude
    /\ a.user_id = b.user_id
    /\ a.comment = b.comment
    /\ a.created_at = b.created_at
    /\ a.is_trusted_user = b.is_trusted_user

\* a step of the location summary, of weight adaptation or of scoring
ReadStep == observed' # observed

\* C25: approve, reject, location summary, weight adaptation and scoring
\* leave every record's rating, coordinates, user_id, comment, created_at
\* and is_trusted_user unchanged (so the trust flag stored at submission
\* stays when the user later gains or loses approved records), and the
\* summary, adaptation and scoring steps change no approval_status.
C25_ContentKept ==
    [][/\ \A i \in DOMAIN store :
              i \in DOMAIN store' /\ SameContent(store[i], store'[i])
       /\ ReadStep =>
              \A i \in DOMAIN store :
                  store'[i].approval_status = store[i].approval_status]_vars

\* C25 witness: the admin has approved the user's pending records, which
\* makes the user trusted, and a summary was then computed; the approved
\* records still carry the trust flag FALSE stored at submission.
C25_Witness ==
    /\ observed.kind = "summary"
    /\ _is_trusted_user(store, UserId(1))
    /\ \E i \in DOMAIN store :
           /\ store[i].user_id = UserId(1)
           /\ store[i].approval_status = "approved"
           /\ store[i].approved_by = "admin"
           /\ ~store[i].is_trusted_user

\* C26: a submission that fails validation changes nothing (no record, no
\* JSON entry, the weight table untouched, and the verdict of every later
\* submission, which counts the records of the table, is what it was); no
\* record is created with status rejected; every stored record has an empty
\* validation_errors list.
C26_FailureChangesNothing ==
    /\ [][\A p \in DOMAIN req :
            Arrives(p) /\ ~req'[p].is_valid =>
                /\ req'[p].pc = "idle"
                /\ store' = store
                /\ feedback_json' = feedback_json
                /\ weights' = weights
                /\ \A d \in PayloadsSeq :
                       validate_feedback(store', d, now')
                           = validate_feedback(store, d, now)]_vars
    /\ [][\A i \in DOMAIN store' \ DOMAIN store :
            store'[i].approval_status # "rejected"]_vars
    /\ [](\A i \in DOMAIN store : store[i].validation_errors = <<>>)

\* C26 witness: a submission of a user one record short of the daily limit
\* was refused for its comment, and the same user's next submission is
\* still accepted.
C26_Witness ==
    /\ req[1].pc = "idle"
    /\ req[1].data # <<>>
    /\ ~req[1].is_valid
    /\ req[1].validation_errors = <<ERR_SUSPICIOUS>>
    /\ Submitted(1).user_id = UserId(1)
    /\ CountUserToday(store, UserId(1), now) = max_feedback_per_user_per_day - 1
    /\ validate_feedback(store, Payload(UserId(1), P1, 5, NoComment, General),
                         now).is_valid

-----------------------------------------------------------------------------
(* The JSON mirror and the table under admin actions (SpecAdmin)           *)

MirrorIds == {feedback_json[k].id : k \in DOMAIN feedback_json}

ApprovedIds == {i \in DOMAIN store : store[i].approval_status \in APPROVED}

\* C27: whenever no request is in progress, the entries of the JSON mirror
\* are exactly the records of the table whose approval_status is approved
\* or auto_approved, one entry per record.
C27_MirrorIsApproved ==
    Quiet =>
        /\ MirrorIds = ApprovedIds
        /\ Cardinality(MirrorIds) = Len(feedback_json)

-----------------------------------------------------------------------------
(* SpecTrust: two concurrent clients and an admin, on the records of a     *)
(* user who is one approved record short of trusted, or just trusted.      *)

MaxEventsTrust == 3

ScriptsTrust ==
    {Script(trusted_user_threshold - 1, <<UserId(1)>>, 2, 5),
     Script(trusted_user_threshold, <<UserId(1)>>, 2, 5)}

PayloadsTrust ==
    {Payload(UserId(1), P1, 5, NoComment, General),
     Payload(UserId(1), P2, 10, NoComment, General)}

InitTrust == InitFrom(ScriptsTrust, Clients, MaxEventsTrust)

NextTrust ==
    \/ Scripted
    \/ Warm /\ \E p \in Clients, data \in PayloadsTrust : Submit(p, data)
    \/ \E p \in Clients : CreateOk(p)
    \/ \E p \in Clients : JsonRead(p)
    \/ \E p \in Clients : JsonWrite(p)
    \/ \E p \in Clients : RefreshWeights(p)
    \/ Warm /\ \E id \in DOMAIN store : Approve(id, "admin")
    \/ Warm /\ \E id \in DOMAIN store : Reject(id, "admin", "spam")

SpecTrust == InitTrust /\ [][NextTrust]_vars

\* the step on which the request of client p creates its record
Creates(p) == req[p].pc = "create" /\ Len(store') = Len(store) + 1

\* C28: the is_trusted_user value stored with a record is the trust value
\* the Validator used to decide its approval_status, in every interleaving:
\* a record created as pending has is_trusted_user false, and a record with
\* rating 1 or 10 created as auto_approved has is_trusted_user true.
C28_TrustMatchesDecision ==
    [][\A p \in DOMAIN req :
          Creates(p) =>
              LET fb == store'[Len(store')]
              IN  /\ fb.approval_status = "pending" => ~fb.is_trusted_user
                  /\ fb.rating \in {min_rating, max_rating}
                        /\ fb.approval_status = "auto_approved"
                     => fb.is_trusted_user]_vars

-----------------------------------------------------------------------------
(* SpecAnon: one client on a table that holds a day's worth of records     *)
(* without a user_id, or of one user.                                      *)

MaxEventsAnon == 2

ScriptsAnon ==
    {Script(max_feedback_per_user_per_day, <<ANON>>, 2, 5),
     Script(max_feedback_per_user_per_day + 1, <<ANON>>, 2, 5),
     Script(max_feedback_per_user_per_day + 1, <<UserId(1)>>, 2, 5)}

PayloadsAnon ==
    {Payload(ANON, P1, 5, NoComment, General),
     Payload(ANON, P2, 5, NoComment, General),
     Payload(ANON, P2, 10, SpamComment, General),
     Payload(UserId(1), P2, 5, NoComment, General)}

InitAnon == InitFrom(ScriptsAnon, {1}, MaxEventsAnon)

NextAnon ==
    \/ Scripted
    \/ Warm /\ \E data \in PayloadsAnon : Submit(1, data)
    \/ CreateOk(1)
    \/ JsonRead(1)
    \/ JsonWrite(1)
    \/ RefreshWeights(1)
    \/ Between /\ Tick(1)

SpecAnon == InitAnon /\ [][NextAnon]_vars

\* the records without a user_id created on the day of t
AnonymousToday(t) ==
    {i \in DOMAIN store :
        store[i].user_id = ANON /\ store[i].created_at \div 24 = t \div 24}

HasError(errors, e) == \E k \in DOMAIN errors : errors[k] = e

\* C29: a submission without a user_id is never rejected with the
\* daily-limit error, however many records without a user_id were created
\* that day; when it passes the field, coordinate, rating and content
\* checks it is rejected exactly when the per-location hourly limit is
\* reached.
C29_AnonymousNoDailyLimit ==
    [][\A p \in DOMAIN req :
          Arrives(p) /\ req'[p].data[1].user_id = ANON =>
              /\ ~HasError(req'[p].validation_errors, ERR_DAILY)
              /\ PassesEarlierChecks(req'[p].data[1]) =>
                    (req'[p].is_valid
                        <=> Cardinality(NearbyRecent(
                                req'[p].data[1].latitude[1],
                                req'[p].data[1].longitude[1], now))
                              < max_feedback_per_location_per_hour)]_vars

\* C29 witness: a submission without a user_id has been accepted and stored
\* although the table already held ten or more records without a user_id
\* created the same day.
C29_Witness ==
    /\ req[1].pc = "idle"
    /\ req[1].data # <<>>
    /\ Submitted(1).user_id = ANON
    /\ req[1].is_valid
    /\ req[1].fb # <<>>
    /\ store[Len(store)] = req[1].fb[1]
    /\ Cardinality(AnonymousToday(now)) > max_feedback_per_user_per_day

-----------------------------------------------------------------------------
(* SpecRepeat: the public score endpoint on a table whose regional mean    *)
(* is absent, low (a rating 1 record approved by the admin) or in [5, 8].  *)

MaxEventsRepeat == 3

PayloadsRepeat ==
    {Payload(ANON, P1, 1, NoComment, Tourist),
     Payload(ANON, P1, 6, NoComment, Tourist)}

InitRepeat == InitFrom({Script(0, <<ANON>>, 2, 5)}, {1}, MaxEventsRepeat)

NextRepeat ==
    \/ Warm /\ \E data \in PayloadsRepeat : Submit(1, data)
    \/ CreateOk(1)
    \/ JsonRead(1)
    \/ JsonWrite(1)
    \/ RefreshWeights(1)
    \/ Between /\ \E id \in DOMAIN store : Approve(id, "admin")
    \/ Between /\ \E surroundings \in SurroundingsCombined,
                      place \in {P1, P2} :
            CombinedData(surroundings, place[1], place[2], DefaultRadius)

SpecRepeat == InitRepeat /\ [][NextRepeat]_vars

\* a step that serves a request of the public score endpoint
ServesScore ==
    /\ observed'.kind = "combined"
    /\ env'.events = env.events - 1
    /\ UNCHANGED <<store, feedback_json, now, req>>

\* the response to the request just served, made again at once
ServedAgain(w, st, fj, args) ==
    combined_data_view(update_weights_from_feedback(w, st), fj,
                       args[1], args[2], args[3], args[4])

\* C30: a request to the public score endpoint that is repeated at once,
\* with no submission or admin action in between, is computed with the same
\* weights and returns the same AI score, whatever the regional mean.
C30_RepeatSameScore ==
    [][ServesScore =>
          /\ update_weights_from_feedback(weights', store') = weights'
          /\ ServedAgain(weights', store', feedback_json',
                         observed'.args).ai_safety_score
                = observed'.result[1].ai_safety_score]_vars

=============================================================================
